---- MODULE Spec2Model ----
(***************************************************************************)
(* Model of the structural-key indexes of the word helper:                 *)
(*   WordIndex      (wordnet_vowel_index.py)                               *)
(*   PlaceIndex     (place_index.py)                                       *)
(*   FirstNameIndex (first_name_index.py)                                  *)
(* and of the startup/ready protocol of the query service (api/main.py).   *)
(*                                                                         *)
(* Text is modelled as a sequence of one-character strings; a dict is a    *)
(* function whose DOMAIN is its key set; a list is a sequence.             *)
(***************************************************************************)
EXTENDS Integers, Sequences, FiniteSets, TLC

(***************************************************************************)
(* Bounds of the model.                                                    *)
(***************************************************************************)
\* number of lines / rows of a primary dataset that a run reads
MaxLines == 3
\* capacity the memoizing caches are scaled down to
CacheSize == 2

(***************************************************************************)
(* Characters and strings.                                                 *)
(***************************************************************************)
LowerAlpha ==
  <<"a","b","c","d","e","f","g","h","i","j","k","l","m",
    "n","o","p","q","r","s","t","u","v","w","x","y","z">>

UpperAlpha ==
  <<"A","B","C","D","E","F","G","H","I","J","K","L","M",
    "N","O","P","Q","R","S","T","U","V","W","X","Y","Z">>

DigitChars == <<"0","1","2","3","4","5","6","7","8","9">>

Range(s) == { s[i] : i \in DOMAIN s }

IsLower(ch) == ch \in Range(LowerAlpha)

IsUpper(ch) == ch \in Range(UpperAlpha)

IsLetter(ch) == IsLower(ch) \/ IsUpper(ch)

IsDigit(ch) == ch \in Range(DigitChars)

\* str.upper() on one character
UpperCh(ch) ==
  IF IsLower(ch)
    THEN UpperAlpha[CHOOSE i \in DOMAIN LowerAlpha : LowerAlpha[i] = ch]
    ELSE ch

\* str.lower() on one character
LowerCh(ch) ==
  IF IsUpper(ch)
    THEN LowerAlpha[CHOOSE i \in DOMAIN UpperAlpha : UpperAlpha[i] = ch]
    ELSE ch

Upper(s) == [i \in DOMAIN s |-> UpperCh(s[i])]

Lower(s) == [i \in DOMAIN s |-> LowerCh(s[i])]

\* int() of a digit string
DigitVal(ch) == (CHOOSE i \in DOMAIN DigitChars : DigitChars[i] = ch) - 1

RECURSIVE ParseInt(_)
ParseInt(s) ==
  IF s = <<>> THEN 0
  ELSE 10 * ParseInt(SubSeq(s, 1, Len(s) - 1)) + DigitVal(s[Len(s)])

\* str.replace(ch, "")
RECURSIVE RemoveCh(_, _)
RemoveCh(s, ch) ==
  IF s = <<>> THEN <<>>
  ELSE IF Head(s) = ch THEN RemoveCh(Tail(s), ch)
  ELSE <<Head(s)>> \o RemoveCh(Tail(s), ch)

\* str.strip() (only blanks occur as whitespace in the modelled data)
RECURSIVE LStrip(_)
LStrip(s) ==
  IF s # <<>> /\ Head(s) = " " THEN LStrip(Tail(s)) ELSE s

RECURSIVE RStrip(_)
RStrip(s) ==
  IF s # <<>> /\ s[Len(s)] = " " THEN RStrip(SubSeq(s, 1, Len(s) - 1)) ELSE s

Strip(s) == RStrip(LStrip(s))

\* the value None of an optional argument or field
None == "None"

\* the value None of an optional string argument (strings are sequences here)
NoneStr == << None >>

(***************************************************************************)
(* WordEncoder: vowel positions, character at a position, letter buckets.  *)
(***************************************************************************)
VOWELS == <<"A","E","I","O","U","Y">>

\* 1-based positions of the vowels of word, in increasing order
RECURSIVE VowelsFrom(_, _)
VowelsFrom(word, i) ==
  IF i > Len(word) THEN <<>>
  ELSE IF UpperCh(word[i]) \in Range(VOWELS)
    THEN <<i>> \o VowelsFrom(word, i + 1)
    ELSE VowelsFrom(word, i + 1)

vowel_positions(word) == VowelsFrom(word, 1)

first_v(vpos) == vpos[1]

\* a second position that repeats the first
second_v_repeats_first(vpos) == IF Len(vpos) > 1 THEN vpos[1] ELSE 0

second_v(vpos) == IF Len(vpos) > 1 THEN vpos[2] ELSE 0

\* wordnet_vowel_index._char_at: blanks and hyphens are removed first
char_at_word(word, pos) ==
  LET clean == RemoveCh(RemoveCh(word, " "), "-")
  IN  IF 1 <= pos /\ pos <= Len(clean) THEN <<clean[pos]>> ELSE <<>>

\* place_index._char_at and first_name_index._char_at: only blanks are removed
char_at_name(word, pos) ==
  LET clean == RemoveCh(word, " ")
  IN  IF 1 <= pos /\ pos <= Len(clean) THEN <<clean[pos]>> ELSE <<>>

\* a table that lists J in bucket 2 only
CATEGORY_MAP_single_J ==
  ( 1 :> {"A","E","I","F","H","K","L","M","N","T","V","W","X","Y","Z"} ) @@
  ( 2 :> {"C","G","O","J","Q","S","U"} ) @@
  ( 3 :> {"B","D","P","R","U"} )

CATEGORY_MAP ==
  ( 1 :> {"A","E","I","F","H","K","L","M","N","T","V","W","X","Y","Z"} ) @@
  ( 2 :> {"C","G","O","J","Q","S","U"} ) @@
  ( 3 :> {"B","D","P","R","J","U"} )

\* a place table that lists U in bucket 2 only
CATEGORY_MAP_place_single_U ==
  ( 1 :> {"A","E","I","F","H","K","L","M","N","T","V","W","X","Y","Z"} ) @@
  ( 2 :> {"C","G","O","J","Q","S","U"} ) @@
  ( 3 :> {"B","D","P","R","J"} )

\* place_index.CATEGORY_MAP
CATEGORY_MAP_place ==
  ( 1 :> {"A","E","I","F","H","K","L","M","N","T","V","W","X","Y","Z"} ) @@
  ( 2 :> {"C","G","O","J","Q","S","U"} ) @@
  ( 3 :> {"B","D","P","R","J","U"} )

\* first_name_index.CATEGORY_MAP
CATEGORY_MAP_name ==
  ( 1 :> {"A","E","I","F","H","K","L","M","N","T","V","W","X","Y","Z"} ) @@
  ( 2 :> {"C","G","O","J","Q","S","U"} ) @@
  ( 3 :> {"B","D","P","R","J","U"} )

(***************************************************************************)
(* The modelled vocabulary.                                                *)
(***************************************************************************)
w_hat == <<"h","a","t">>
w_cat == <<"c","a","t">>
w_cup == <<"c","u","p">>
w_jar == <<"j","a","r">>
w_bag == <<"b","a","g">>
w_zoo == <<"z","o","o">>
w_tv == <<"t","v">>
w_user == <<"u","s","e","r">>
w_oven == <<"o","v","e","n">>
w_xray == <<"x","r","a","y">>
w_x_ray == <<"x","-","r","a","y">>
w_X_Ray == <<"X","-","R","a","y">>
w_hot_dog == <<"h","o","t"," ","d","o","g">>
w_hotdog == <<"h","o","t","d","o","g">>
w_box == <<"b","o","x">>
w_hatbox == <<"h","a","t","b","o","x">>
w_Cuba == <<"C","u","b","a">>
w_cuba == <<"c","u","b","a">>
w_Peru == <<"P","e","r","u">>
w_peru == <<"p","e","r","u">>
w_Juba == <<"J","u","b","a">>
w_juba == <<"j","u","b","a">>
w_Lima == <<"L","i","m","a">>
w_lima == <<"l","i","m","a">>
w_Rome == <<"R","o","m","e">>
w_Monaco == <<"M","o","n","a","c","o">>
w_monaco == <<"m","o","n","a","c","o">>
w_New_York == <<"N","e","w"," ","Y","o","r","k">>
w_Guinea_Bissau == <<"G","u","i","n","e","a","-","B","i","s","s","a","u">>
w_guinea_bissau == <<"g","u","i","n","e","a","-","b","i","s","s","a","u">>
w_john == <<"j","o","h","n">>
w_mary == <<"m","a","r","y">>
w_Alex == <<"A","l","e","x">>
w_alex == <<"a","l","e","x">>
w_li == <<"l","i">>
w_Jo_Ann == <<"J","o","-","A","n","n">>
w_jo_ann == <<"j","o","-","a","n","n">>
w_mary_ann == <<"m","a","r","y"," ","a","n","n">>

(***************************************************************************)
(* Classifier.  The membership sets are the source's sets restricted to    *)
(* the modelled vocabulary.                                                *)
(***************************************************************************)
ANIMALS == { w_cat }

FOOD_PLANT == { }

CLOTHING == { w_hat, w_bag }

FURNITURE == { w_oven }

VEHICLE_MACHINE == { }

OBJECT_TOOL == { w_cup, w_jar, w_box, w_bag }

NATURAL_MATERIAL == { }

PERSON_WORDS == { w_user }

\* a classifier that looks into the tools before the clothing
classify_subject_tools_first(word) ==
  LET w == Lower(word)
  IN  IF w \in ANIMALS THEN <<"animal", FALSE>>
      ELSE IF w \in FOOD_PLANT THEN <<"food-plant", FALSE>>
      ELSE IF w \in OBJECT_TOOL THEN <<"object-tool", TRUE>>
      ELSE IF w \in CLOTHING THEN <<"clothing", TRUE>>
      ELSE IF w \in FURNITURE THEN <<"furniture", TRUE>>
      ELSE IF w \in VEHICLE_MACHINE THEN <<"vehicle-machine", TRUE>>
      ELSE IF w \in NATURAL_MATERIAL THEN <<"natural-material", FALSE>>
      ELSE IF w \in PERSON_WORDS THEN <<"person", FALSE>>
      ELSE <<"unknown", FALSE>>

\* returns <<bucket, manmade>>
classify_subject(word) ==
  LET w == Lower(word)
  IN  IF w \in ANIMALS THEN <<"animal", FALSE>>
      ELSE IF w \in FOOD_PLANT THEN <<"food-plant", FALSE>>
      ELSE IF w \in CLOTHING THEN <<"clothing", TRUE>>
      ELSE IF w \in FURNITURE THEN <<"furniture", TRUE>>
      ELSE IF w \in VEHICLE_MACHINE THEN <<"vehicle-machine", TRUE>>
      ELSE IF w \in OBJECT_TOOL THEN <<"object-tool", TRUE>>
      ELSE IF w \in NATURAL_MATERIAL THEN <<"natural-material", FALSE>>
      ELSE IF w \in PERSON_WORDS THEN <<"person", FALSE>>
      ELSE <<"unknown", FALSE>>

(***************************************************************************)
(* Inputs of the noun build: the line-JSON dataset and the side tables.    *)
(***************************************************************************)
\* a line that is a JSON object with a subject and a source
JLine(subj, src) == [kind |-> "object", subject |-> subj, source |-> src]

\* a line json.loads() rejects
BadLine == [kind |-> "invalid", subject |-> <<>>, source |-> None]

\* a line json.loads() accepts but that is no object, such as 42: obj.get
\* raises AttributeError
ScalarLine == [kind |-> "scalar", subject |-> <<>>, source |-> None]

NounFiles ==
  { << JLine(w_cat, "train"), JLine(w_cup, "train"), JLine(w_jar, "keywords"),
       JLine(w_hat, "train"), JLine(w_bag, "train") >>,
    << JLine(w_X_Ray, "train"), JLine(w_xray, "train"), JLine(w_user, "keywords"),
       JLine(w_oven, "train"), JLine(w_xray, "train") >>,
    << JLine(w_zoo, "train"), JLine(w_bag, "keywords"), BadLine,
       JLine(w_cat, "train"), JLine(w_tv, "keywords") >>,
    << JLine(w_hot_dog, "train"), JLine(w_hotdog, "keywords"), JLine(w_jar, "train"),
       JLine(w_cup, "train"), JLine(w_bag, "keywords") >>,
    << JLine(w_hat, "train"), JLine(w_box, "keywords"), JLine(w_hatbox, "train"),
       JLine(w_hatbox, "train"), JLine(w_cat, "train"), ScalarLine >> }

\* the datasets a run may be given: MaxLines consecutive lines of one file
Windows(files) ==
  UNION { { SubSeq(f, i, i + MaxLines - 1) : i \in 1..(Len(f) - MaxLines + 1) } :
          f \in files }

NounDatasets == Windows(NounFiles)

\* holdable_flags.tsv absent, or flagging cup and jar
HoldableSets == { {}, { w_cup, w_jar } }

Label(o, s, l) == [origin |-> o, size |-> s, label |-> l]

\* thing_labels.tsv absent, or labelling cat, zoo, bag and user
LabelTables ==
  { <<>>,
    ( w_cat :> Label("natural", "small", "animal") ) @@
    ( w_zoo :> Label("man-made", "large", "place") ) @@
    ( w_bag :> Label("both", "small", "abstract") ) @@
    ( w_user :> Label("man-made", "small", "object") ) }

(***************************************************************************)
(* State.                                                                  *)
(***************************************************************************)
VARIABLES
  cls,               \* the index class this run constructs
  pc,                \* position of the constructor
  file,              \* the unread lines of the noun dataset
  subject_counts,    \* _build_from_jsonl: subject -> occurrences
  keyword_subjects,  \* _build_from_jsonl: subjects of keyword lines
  todo,              \* _build_from_jsonl: subjects the second loop has not visited
  index,             \* self.index: key -> list of entries
  firstIns,          \* history: text -> the entry first inserted under that text
  HOLDABLE_SET,      \* module-level set loaded from holdable_flags.tsv
  LABELS_DICT,       \* module-level _LABELS_DICT loaded from thing_labels.tsv
  RHYME_FLAGS,       \* the rows <<word, flag>> of rhyme_flags.tsv
  NICKNAMES,         \* the rows of the nicknames file: formal name -> nicknames
  setOrder,          \* the order this process iterates CATEGORY_MAP[c] in
  cache,             \* the lru_cache of the exact lookup, least recent first
  call,              \* the last query call
  result,            \* what the last query call returned or raised
  dupIns,            \* history: the texts inserted more than once
  ncalls,            \* number of queries made in a run of query sequences
  mark,              \* history: one earlier call and its outcome
  task,              \* api/main.py: position of _startup_build_indexes
  app_index,         \* api/main.py: global index
  places_index,      \* api/main.py: global places_index
  names_index,       \* api/main.py: global names_index
  INDEX_READY,       \* api/main.py: global _INDEX_READY
  handler,           \* api/main.py: the request each worker thread is serving
  requests           \* api/main.py: number of requests received

buildVars == << file, subject_counts, keyword_subjects, todo, firstIns, dupIns >>

seqVars == << ncalls, mark >>

svcVars ==
  << task, app_index, places_index, names_index, INDEX_READY, handler, requests >>

inputVars == << cls, HOLDABLE_SET, LABELS_DICT, RHYME_FLAGS, NICKNAMES, setOrder >>

vars == << cls, pc, file, subject_counts, keyword_subjects, todo, index,
           firstIns, HOLDABLE_SET, LABELS_DICT, RHYME_FLAGS, NICKNAMES, setOrder,
           cache, call, result, dupIns, ncalls, mark, task, app_index,
           places_index, names_index, INDEX_READY, handler, requests >>

\* dict.get(key, default)
Get(d, k, default) == IF k \in DOMAIN d THEN d[k] ELSE default

\* d.setdefault(k, []).append(e)
Append1(d, k, e) ==
  IF k \in DOMAIN d THEN [d EXCEPT ![k] = Append(@, e)]
  ELSE d @@ (k :> <<e>>)

(***************************************************************************)
(* WordIndex._build_from_jsonl                                             *)
(***************************************************************************)
\* re.fullmatch(r"[a-z\- ]+", s)
SaneSubject(s) ==
  /\ s # <<>>
  /\ \A i \in DOMAIN s : IsLower(s[i]) \/ s[i] = "-" \/ s[i] = " "

\* first loop, one line of the file
ReadLine ==
  /\ cls = "WordIndex" /\ pc = "read" /\ file # <<>>
  /\ LET line == Head(file)
         subj_raw == Lower(Strip(line.subject))
     IN  /\ file' = Tail(file)
         /\ pc' = IF line.kind = "scalar" THEN "failed" ELSE pc
         /\ IF line.kind \in {"invalid", "scalar"}
              THEN UNCHANGED << subject_counts, keyword_subjects >>
              ELSE /\ keyword_subjects' =
                        IF line.source = "keywords"
                          THEN keyword_subjects \cup {subj_raw}
                          ELSE keyword_subjects
                   /\ subject_counts' =
                        IF SaneSubject(subj_raw)
                          THEN IF subj_raw \in DOMAIN subject_counts
                                 THEN [subject_counts EXCEPT ![subj_raw] = @ + 1]
                                 ELSE subject_counts @@ (subj_raw :> 1)
                          ELSE subject_counts
  /\ UNCHANGED << todo, index, firstIns, dupIns, inputVars, cache, call, result,
                  seqVars, svcVars >>

\* end of the file: all_subjects = keyword_subjects.union(subject_counts.keys())
EndOfFile ==
  /\ cls = "WordIndex" /\ pc = "read" /\ file = <<>>
  /\ todo' = keyword_subjects \cup DOMAIN subject_counts
  /\ pc' = "insert"
  /\ UNCHANGED << file, subject_counts, keyword_subjects, index, firstIns, dupIns,
                  inputVars, cache, call, result, seqVars, svcVars >>

NounEntry(subj_raw, count) ==
  LET display_word == RemoveCh(subj_raw, "-")
      cl == classify_subject(subj_raw)
  IN  [ word |-> display_word,
        holdable |-> display_word \in HOLDABLE_SET,
        cat |-> cl[1],
        manmade |-> cl[2],
        common |-> count > 1,
        freq_count |-> count,
        compound |-> (" " \in Range(subj_raw)) \/ ("-" \in Range(subj_raw)) ]

NounKey(subj_raw) ==
  LET clean_word == RemoveCh(RemoveCh(subj_raw, " "), "-")
      display_word == RemoveCh(subj_raw, "-")
      vpos == vowel_positions(clean_word)
  IN  << Len(clean_word), display_word[1], first_v(vpos), second_v(vpos) >>

\* whether the second loop indexes the subject
NounIndexed(subj_raw) ==
  /\ vowel_positions(RemoveCh(RemoveCh(subj_raw, " "), "-")) # <<>>
  /\ classify_subject(subj_raw)[1] # "person"

\* second loop, one subject; the loop runs over a set, in any order
InsertSubject ==
  /\ cls = "WordIndex" /\ pc = "insert"
  /\ \E subj_raw \in todo :
       /\ todo' = todo \ {subj_raw}
       /\ IF NounIndexed(subj_raw)
            THEN LET e == NounEntry(subj_raw, Get(subject_counts, subj_raw, 1))
                 IN  /\ index' = Append1(index, NounKey(subj_raw), e)
                     /\ firstIns' = IF e.word \in DOMAIN firstIns THEN firstIns
                                    ELSE firstIns @@ (e.word :> e)
                     /\ dupIns' = IF e.word \in DOMAIN firstIns
                                    THEN dupIns \cup {e.word} ELSE dupIns
            ELSE UNCHANGED << index, firstIns, dupIns >>
  /\ UNCHANGED << pc, file, subject_counts, keyword_subjects,
                  inputVars, cache, call, result, seqVars, svcVars >>

\* keep the first entry of every text, in order
RECURSIVE DedupFrom(_, _)
DedupFrom(lst, seen) ==
  IF lst = <<>> THEN <<>>
  ELSE IF Head(lst).word \in seen THEN DedupFrom(Tail(lst), seen)
  ELSE <<Head(lst)>> \o DedupFrom(Tail(lst), seen \cup {Head(lst).word})

DedupByWord(lst) == DedupFrom(lst, {})

\* "Deduplicate while preserving order", every bucket
Deduplicate ==
  /\ cls = "WordIndex" /\ pc = "insert" /\ todo = {}
  /\ index' = [k \in DOMAIN index |-> DedupByWord(index[k])]
  /\ pc' = "compound"
  /\ UNCHANGED << buildVars, inputVars, cache, call, result, seqVars, svcVars >>

\* all texts of an index
TextsOf(idx) ==
  UNION { { idx[k][i].word : i \in DOMAIN idx[k] } : k \in DOMAIN idx }

\* the glued-compound heuristic: range(3, len(w) - 2)
GluedCompound(w, noun_set) ==
  \E i \in 3..(Len(w) - 3) :
     /\ SubSeq(w, 1, i) \in noun_set
     /\ SubSeq(w, i + 1, Len(w)) \in noun_set

\* an entry that already carries the flag keeps it
CompoundFlag(e, noun_set) ==
  IF "compound" \in DOMAIN e THEN e
  ELSE IF " " \in Range(e.word) \/ "-" \in Range(e.word)
    THEN ("compound" :> TRUE) @@ e
    ELSE ("compound" :> GluedCompound(e.word, noun_set)) @@ e

\* WordIndex._add_compound_flags
AddCompoundFlags ==
  /\ cls = "WordIndex" /\ pc = "compound"
  /\ LET noun_set == TextsOf(index)
     IN  index' = [k \in DOMAIN index |->
                     [i \in DOMAIN index[k] |-> CompoundFlag(index[k][i], noun_set)]]
  /\ pc' = "labels"
  /\ UNCHANGED << buildVars, inputVars, cache, call, result, seqVars, svcVars >>

\* an overlay that resets the manmade flag of the entries it has no row for
LabelEntryResetsUnlabelled(e, labels) ==
  IF e.word \in DOMAIN labels
    THEN LET meta == labels[e.word]
         IN  [(meta @@ e) EXCEPT !.cat = meta.label,
                                 !.manmade = (meta.origin = "man-made")]
    ELSE [e EXCEPT !.manmade = FALSE]

\* item.update(meta) and the overrides of cat and manmade
LabelEntry(e, labels) ==
  IF e.word \in DOMAIN labels
    THEN LET meta == labels[e.word]
         IN  [(meta @@ e) EXCEPT !.cat = meta.label,
                                 !.manmade = (meta.origin = "man-made")]
    ELSE e

\* WordIndex._apply_gemini_labels
ApplyGeminiLabels ==
  /\ cls = "WordIndex" /\ pc = "labels"
  /\ index' = IF DOMAIN LABELS_DICT = {} THEN index
              ELSE [k \in DOMAIN index |->
                      [i \in DOMAIN index[k] |-> LabelEntry(index[k][i], LABELS_DICT)]]
  /\ pc' = "exclude"
  /\ UNCHANGED << buildVars, inputVars, cache, call, result, seqVars, svcVars >>

\* an exclusion set that forgets the places
excluded_without_place == { "person", "abstract" }

excluded_categories == { "person", "abstract", "place" }

RECURSIVE SelectNotExcluded(_)
SelectNotExcluded(lst) ==
  IF lst = <<>> THEN <<>>
  ELSE IF Head(lst).cat \in excluded_categories THEN SelectNotExcluded(Tail(lst))
  ELSE <<Head(lst)>> \o SelectNotExcluded(Tail(lst))

FilteredIndex(idx) ==
  LET kept == { k \in DOMAIN idx : SelectNotExcluded(idx[k]) # <<>> }
  IN  [k \in kept |-> SelectNotExcluded(idx[k])]

\* WordIndex._filter_excluded_categories; the constructor returns
FilterExcludedCategories ==
  /\ cls = "WordIndex" /\ pc = "exclude"
  /\ index' = FilteredIndex(index)
  /\ pc' = "ready"
  /\ UNCHANGED << buildVars, inputVars, cache, call, result, seqVars, svcVars >>

(***************************************************************************)
(* Queries: arguments and results.                                         *)
(***************************************************************************)
\* an Optional[bool] argument
Tri == { None, "True", "False" }

\* the order a process iterates the letter set of a bucket in: Python fixes
\* one order per process; the model offers the alphabetical one and its reverse
OrderOf(map) ==
  [c \in DOMAIN map |-> SelectSeq(UpperAlpha, LAMBDA l : l \in map[c])]

AlphabeticalOrder == OrderOf(CATEGORY_MAP)

Reverse(s) == [i \in DOMAIN s |-> s[Len(s) + 1 - i]]

SetOrdersOf(map) ==
  { OrderOf(map), [c \in DOMAIN map |-> Reverse(OrderOf(map)[c])] }

SetOrders == SetOrdersOf(CATEGORY_MAP)

NoCall ==
  [ op |-> "none", length |-> 0, first_letter |-> None, category |-> 0,
    v1 |-> 0, v2 |-> 0, rc |-> NoneStr, more_vowels |-> None,
    holdable |-> None, compound |-> None, place_type |-> None, region |-> None,
    common |-> None, gender |-> None, origin |-> NoneStr, nickname |-> None,
    rhyme |-> None, ms |-> None ]

NoResult == [kind |-> "none", val |-> <<>>]

\* no call remembered yet
NoMark == [call |-> NoCall, result |-> NoResult, at |-> 0, between |-> FALSE]

Returned(lst) == [kind |-> "list", val |-> lst]

Raised(exc) == [kind |-> "error", val |-> exc]

(***************************************************************************)
(* The positional constraint: RANDOM_LETTER_RE = ^(\d+)([A-Za-z])$         *)
(***************************************************************************)
\* "$" also matches before one trailing newline
BeforeNewline(s) ==
  IF s # <<>> /\ s[Len(s)] = "\n" THEN SubSeq(s, 1, Len(s) - 1) ELSE s

RandomLetterMatch(s) ==
  LET t == BeforeNewline(s)
  IN  /\ Len(t) >= 2
      /\ \A i \in 1..(Len(t) - 1) : IsDigit(t[i])
      /\ IsLetter(t[Len(t)])

\* place_index.RANDOM_LETTER_RE.match(s): << >> for no match, else the
\* groups << int(m.group(1)), m.group(2) >>
RANDOM_LETTER_RE_place(s) ==
  LET t == BeforeNewline(s)
  IN  IF /\ Len(t) >= 2
         /\ \A i \in 1..(Len(t) - 1) : IsDigit(t[i])
         /\ IsLetter(t[Len(t)])
        THEN << ParseInt(SubSeq(t, 1, Len(t) - 1)), t[Len(t)] >>
        ELSE << >>

\* first_name_index.RANDOM_LETTER_RE.match(s), likewise
RANDOM_LETTER_RE_name(s) ==
  LET t == BeforeNewline(s)
  IN  IF /\ Len(t) >= 2
         /\ \A i \in 1..(Len(t) - 1) : IsDigit(t[i])
         /\ IsLetter(t[Len(t)])
        THEN << ParseInt(SubSeq(t, 1, Len(t) - 1)), t[Len(t)] >>
        ELSE << >>

\* int(m.group(1))
MatchPos(s) ==
  LET t == BeforeNewline(s) IN ParseInt(SubSeq(t, 1, Len(t) - 1))

\* m.group(2)
MatchLetter(s) ==
  LET t == BeforeNewline(s) IN t[Len(t)]

(***************************************************************************)
(* WordIndex.query and WordIndex.query_category                            *)
(***************************************************************************)
\* the memoized call: least recently used entry first
CacheHit(cch, key) == \E i \in DOMAIN cch : cch[i].key = key

\* a hit answered with the value of the oldest entry
CacheValOldest(cch, key) == cch[1].val

CacheVal(cch, key) == cch[CHOOSE i \in DOMAIN cch : cch[i].key = key].val

CacheTouch(cch, key) ==
  SelectSeq(cch, LAMBDA c : c.key # key) \o <<[key |-> key, val |-> CacheVal(cch, key)]>>

CachePut(cch, key, val) ==
  LET c == Append(cch, [key |-> key, val |-> val])
  IN  IF Len(c) > CacheSize THEN Tail(c) ELSE c

\* the lookup without first_letter.lower()
IndexGetExactCase(idx, length, letter, v1, v2) ==
  Get(idx, << length, letter, v1, v2 >>, <<>>)

\* self.index.get((length, first_letter.lower(), v1, v2), [])
IndexGet(idx, length, letter, v1, v2) ==
  Get(idx, << length, LowerCh(letter), v1, v2 >>, <<>>)

\* a cache key that leaves out the second vowel position
CacheKeyWithoutV2(length, letter, v1, v2) == << length, letter, v1 >>

\* lru_cache keys a memoized call by all its arguments
CacheKey(length, letter, v1, v2) == << length, letter, v1, v2 >>

\* the value a memoized exact lookup returns
Lookup(idx, cch, length, letter, v1, v2) ==
  LET key == CacheKey(length, letter, v1, v2)
  IN  IF CacheHit(cch, key) THEN CacheVal(cch, key)
      ELSE IndexGet(idx, length, letter, v1, v2)

\* the cache after a memoized exact lookup
CacheAfter(idx, cch, length, letter, v1, v2) ==
  LET key == CacheKey(length, letter, v1, v2)
  IN  IF CacheHit(cch, key) THEN CacheTouch(cch, key)
      ELSE CachePut(cch, key, IndexGet(idx, length, letter, v1, v2))

\* a read that inserts the key it misses, as setdefault would
IndexAfterSetdefault(idx, length, letter, v1, v2) ==
  LET key == << length, LowerCh(letter), v1, v2 >>
  IN  IF key \in DOMAIN idx THEN idx ELSE idx @@ (key :> <<>>)

\* the dict after self.index.get(key, []): get inserts nothing
IndexAfterGet(idx, length, letter, v1, v2) == idx

\* the dict after a memoized exact lookup: read only when the cache misses
IndexAfterLookup(idx, cch, length, letter, v1, v2) ==
  IF CacheHit(cch, CacheKey(length, letter, v1, v2)) THEN idx
  ELSE IndexAfterGet(idx, length, letter, v1, v2)

\* the dict after the reads of WordIndex.query_category, one per letter
RECURSIVE IndexAfterWordGather(_, _, _, _, _)
IndexAfterWordGather(idx, letters, length, v1, v2) ==
  IF letters = <<>> THEN idx
  ELSE IndexAfterWordGather(IndexAfterGet(idx, length, Head(letters), v1, v2),
                            Tail(letters), length, v1, v2)

\* the dict after the memoized lookups of one query_category call
RECURSIVE IndexAfterGather(_, _, _, _, _, _)
IndexAfterGather(idx, cch, letters, length, v1, v2) ==
  IF letters = <<>> THEN idx
  ELSE LET l == LowerCh(Head(letters))
       IN  IndexAfterGather(IndexAfterLookup(idx, cch, length, l, v1, v2),
                            CacheAfter(idx, cch, length, l, v1, v2),
                            Tail(letters), length, v1, v2)

\* candidates.extend(self.index.get(key, [])) for each letter of the bucket
RECURSIVE WordGather(_, _, _, _, _)
WordGather(idx, letters, length, v1, v2) ==
  IF letters = <<>> THEN <<>>
  ELSE IndexGet(idx, length, Head(letters), v1, v2)
         \o WordGather(idx, Tail(letters), length, v1, v2)

Truthy3(b) == b = "True"

HoldableFilter(lst, holdable) ==
  IF holdable = "True" THEN SelectSeq(lst, LAMBDA e : e.holdable)
  ELSE IF holdable = "False" THEN SelectSeq(lst, LAMBDA e : ~e.holdable)
  ELSE lst

\* "if random_constraint:" is false for None and for the empty string
ConstraintGiven(rc) == rc # NoneStr /\ rc # <<>>

WordConstraintFilter(lst, rc) ==
  LET pos == MatchPos(Upper(rc))
      letter == LowerCh(MatchLetter(Upper(rc)))
  IN  SelectSeq(lst, LAMBDA e : char_at_word(e.word, pos) = <<letter>>)

\* a vowel filter whose False side wants fewer than two vowels
WordVowelFilterStrict(lst, more_vowels) ==
  IF more_vowels = None THEN lst
  ELSE IF more_vowels = "True"
    THEN SelectSeq(lst, LAMBDA e : Len(vowel_positions(e.word)) > 2)
    ELSE SelectSeq(lst, LAMBDA e : Len(vowel_positions(e.word)) < 2)

WordVowelFilter(lst, more_vowels) ==
  IF more_vowels = None THEN lst
  ELSE IF more_vowels = "True"
    THEN SelectSeq(lst, LAMBDA e : Len(vowel_positions(e.word)) > 2)
    ELSE SelectSeq(lst, LAMBDA e : Len(vowel_positions(e.word)) <= 2)

CompoundFilter(lst, compound) ==
  IF compound = "True" THEN SelectSeq(lst, LAMBDA e : Get(e, "compound", FALSE))
  ELSE IF compound = "False" THEN SelectSeq(lst, LAMBDA e : ~Get(e, "compound", FALSE))
  ELSE lst

\* a query_category that meets a malformed constraint only when an entry is
\* left to test against it
WordQueryCategoryLazyRaise(idx, order, c) ==
  IF c.category \notin DOMAIN CATEGORY_MAP THEN Raised("ValueError")
  ELSE LET candidates == WordGather(idx, order[c.category], c.length, c.v1, c.v2)
           deduped == DedupByWord(candidates)
           held == HoldableFilter(deduped, c.holdable)
       IN  IF ConstraintGiven(c.rc) /\ ~RandomLetterMatch(Upper(c.rc)) /\ held # << >>
             THEN Raised("ValueError")
             ELSE LET placed == IF ConstraintGiven(c.rc) /\ held # << >>
                                  THEN WordConstraintFilter(held, c.rc) ELSE held
                  IN  Returned(CompoundFilter(WordVowelFilter(placed, c.more_vowels),
                                              c.compound))

\* WordIndex.query_category: what it returns or raises
WordQueryCategory(idx, order, c) ==
  IF c.category \notin DOMAIN CATEGORY_MAP THEN Raised("ValueError")
  ELSE LET candidates == WordGather(idx, order[c.category], c.length, c.v1, c.v2)
           deduped == DedupByWord(candidates)
           held == HoldableFilter(deduped, c.holdable)
       IN  IF ConstraintGiven(c.rc) /\ ~RandomLetterMatch(Upper(c.rc))
             THEN Raised("ValueError")
             ELSE LET placed == IF ConstraintGiven(c.rc)
                                  THEN WordConstraintFilter(held, c.rc) ELSE held
                  IN  Returned(CompoundFilter(WordVowelFilter(placed, c.more_vowels),
                                              c.compound))

\* the (length, v1, v2) shapes queried: those of the vocabulary and an unused one
Shapes == { <<3, 2, 0>>, <<4, 3, 4>>, <<6, 2, 5>>, <<5, 1, 0>> }

\* categories passed: the three buckets and two invalid ones
Categories == 0..4

\* constraint strings passed
Constraints ==
  { NoneStr, <<>>, <<"3","T">>, <<"2","a">>, <<"4","D">>, <<"0","T">>, <<"9","T">>,
    <<"T","3">>, <<"3">>, <<"3","T","T">>, <<"2","A","\n">> }

WordCategoryCall(sh, cat, rc, mv, h, cp) ==
  [NoCall EXCEPT !.op = "query_category", !.length = sh[1], !.category = cat,
                 !.v1 = sh[2], !.v2 = sh[3], !.rc = rc, !.more_vowels = mv,
                 !.holdable = h, !.compound = cp]

\* every constraint string without a boolean filter, and every combination
\* of the boolean filters without and with a constraint
WordCategoryCalls ==
  { WordCategoryCall(sh, cat, rc, None, None, None) :
      sh \in Shapes, cat \in Categories, rc \in Constraints }
  \cup
  { WordCategoryCall(sh, cat, rc, mv, h, cp) :
      sh \in { <<3, 2, 0>>, <<6, 2, 5>> }, cat \in {2, 3, 4},
      rc \in { NoneStr, <<"3","T">> }, mv \in Tri, h \in Tri, cp \in Tri }

DoQueryCategoryWord(c) ==
  /\ call' = c
  /\ result' = WordQueryCategory(index, setOrder, c)
  /\ index' = IF c.category \in DOMAIN CATEGORY_MAP
                THEN IndexAfterWordGather(index, setOrder[c.category],
                                          c.length, c.v1, c.v2)
                ELSE index
  /\ UNCHANGED << pc, buildVars, inputVars, cache, svcVars >>

QueryCategoryWord ==
  /\ cls = "WordIndex" /\ pc = "ready" /\ call.op = "none"
  /\ \E c \in WordCategoryCalls : DoQueryCategoryWord(c)
  /\ UNCHANGED seqVars

\* letters passed to the exact lookup
QueryLetters == { "c", "C", "j", "x", "h", "z" }

WordQueryCalls ==
  { [NoCall EXCEPT !.op = "query", !.length = sh[1], !.first_letter = l,
                   !.v1 = sh[2], !.v2 = sh[3]] :
      sh \in Shapes, l \in QueryLetters }

\* WordIndex.query, memoized
DoQueryWord(c) ==
  /\ call' = c
  /\ result' = Returned(Lookup(index, cache, c.length, c.first_letter, c.v1, c.v2))
  /\ cache' = CacheAfter(index, cache, c.length, c.first_letter, c.v1, c.v2)
  /\ index' = IndexAfterLookup(index, cache, c.length, c.first_letter, c.v1, c.v2)
  /\ UNCHANGED << pc, buildVars, inputVars, svcVars >>

QueryWord ==
  /\ cls = "WordIndex" /\ pc = "ready" /\ call.op = "none"
  /\ \E c \in WordQueryCalls : DoQueryWord(c)
  /\ UNCHANGED seqVars

(***************************************************************************)
(* PlaceIndex: inputs, build and queries.                                  *)
(***************************************************************************)
CONTINENTS == { "AF", "AS", "EU", "NA", "OC", "SA" }

\* the source's sets restricted to the modelled vocabulary
COMMON_COUNTRIES == { w_cuba, w_peru }

COMMON_CITIES == { w_lima }

Country(n, cc, pop) ==
  [kind |-> "country", name |-> n, continentcode |-> cc, population |-> pop]

City(n, pop) ==
  [kind |-> "city", name |-> n, continentcode |-> None, population |-> pop]

\* the rows of gc.get_countries() followed by those of gc.get_cities()
PlaceFiles ==
  { << Country(w_Cuba, "NA", 11), Country(w_Peru, "SA", 29),
       City(w_Juba, 3), City(w_Lima, 77), City(w_Rome, 0) >>,
    << Country(w_Monaco, "EU", 1), Country(w_Guinea_Bissau, "AF", 2),
       City(w_Monaco, 1), City(w_New_York, 80), City(w_Lima, 77) >> }

PlaceDatasets == Windows(PlaceFiles)

PlaceKey(name) ==
  LET vpos == vowel_positions(name)
  IN  << Len(name), name[1], first_v(vpos), second_v(vpos) >>

\* first loop of PlaceIndex._build, one country
AddCountry ==
  /\ cls = "PlaceIndex" /\ pc = "read" /\ file # <<>> /\ Head(file).kind = "country"
  /\ LET cdata == Head(file)
         name == Lower(cdata.name)
         meta == [ type |-> "country",
                   region |-> IF cdata.continentcode \in CONTINENTS
                                THEN cdata.continentcode ELSE None,
                   population |-> cdata.population,
                   common |-> name \in COMMON_COUNTRIES ]
         e == [name |-> name, meta |-> meta]
     IN  /\ file' = Tail(file)
         /\ IF " " \in Range(cdata.name) \/ vowel_positions(name) = <<>>
              THEN UNCHANGED << index, firstIns, dupIns >>
              ELSE /\ index' = Append1(index, PlaceKey(name), e)
                   /\ firstIns' = IF name \in DOMAIN firstIns THEN firstIns
                                  ELSE firstIns @@ (name :> e)
                   /\ dupIns' = IF name \in DOMAIN firstIns
                                  THEN dupIns \cup {name} ELSE dupIns
  /\ UNCHANGED << pc, subject_counts, keyword_subjects, todo, inputVars,
                  cache, call, result, seqVars, svcVars >>

\* second loop of PlaceIndex._build, one city
AddCity ==
  /\ cls = "PlaceIndex" /\ pc = "read" /\ file # <<>> /\ Head(file).kind = "city"
  /\ LET city == Head(file)
         pop == city.population
         name == Lower(city.name)
         meta == [ type |-> "city",
                   region |-> city.continentcode,
                   population |-> pop,
                   common |-> name \in COMMON_CITIES ]
         e == [name |-> name, meta |-> meta]
     IN  /\ file' = Tail(file)
         /\ IF pop = 0 \/ " " \in Range(city.name) \/ vowel_positions(name) = <<>>
              THEN UNCHANGED << index, firstIns, dupIns >>
              ELSE /\ index' = Append1(index, PlaceKey(name), e)
                   /\ firstIns' = IF name \in DOMAIN firstIns THEN firstIns
                                  ELSE firstIns @@ (name :> e)
                   /\ dupIns' = IF name \in DOMAIN firstIns
                                  THEN dupIns \cup {name} ELSE dupIns
  /\ UNCHANGED << pc, subject_counts, keyword_subjects, todo, inputVars,
                  cache, call, result, seqVars, svcVars >>

\* keep the first (name, meta) of every name, in order
RECURSIVE DedupNamesFrom(_, _)
DedupNamesFrom(lst, seen) ==
  IF lst = <<>> THEN <<>>
  ELSE IF Head(lst).name \in seen THEN DedupNamesFrom(Tail(lst), seen)
  ELSE <<Head(lst)>> \o DedupNamesFrom(Tail(lst), seen \cup {Head(lst).name})

\* a deduplication that keeps the last (name, meta) of every name
DedupKeepLast(lst) ==
  LET n == Len(lst)
      rev == [i \in 1..n |-> lst[n + 1 - i]]
      kept == DedupNamesFrom(rev, {})
  IN  [i \in 1..Len(kept) |-> kept[Len(kept) + 1 - i]]

DedupByName(lst) == DedupNamesFrom(lst, {})

\* "Deduplicate names preserving order"; the constructor returns
PlaceDeduplicate ==
  /\ cls = "PlaceIndex" /\ pc = "read" /\ file = <<>>
  /\ index' = [k \in DOMAIN index |-> DedupByName(index[k])]
  /\ pc' = "ready"
  /\ UNCHANGED << buildVars, inputVars, cache, call, result, seqVars, svcVars >>

\* the lookups of one query_category call, threading the cache:
\* candidates.extend(self._lookup(length, letter.lower(), v1, v2))
RECURSIVE Gather(_, _, _, _, _, _)
Gather(idx, cch, letters, length, v1, v2) ==
  IF letters = <<>> THEN [out |-> <<>>, cache |-> cch]
  ELSE LET l == LowerCh(Head(letters))
           rest == Gather(idx, CacheAfter(idx, cch, length, l, v1, v2),
                          Tail(letters), length, v1, v2)
       IN  [ out |-> Lookup(idx, cch, length, l, v1, v2) \o rest.out,
             cache |-> rest.cache ]

\* m is the match: pos, letter = int(m.group(1)), m.group(2).lower()
NameConstraintFilter(lst, m) ==
  LET pos == m[1]
      letter == LowerCh(m[2])
  IN  SelectSeq(lst, LAMBDA e : char_at_name(e.name, pos) = <<letter>>)

NameVowelFilter(lst, more_vowels) ==
  IF more_vowels = None THEN lst
  ELSE IF more_vowels = "True"
    THEN SelectSeq(lst, LAMBDA e : Len(vowel_positions(e.name)) > 2)
    ELSE SelectSeq(lst, LAMBDA e : Len(vowel_positions(e.name)) <= 2)

NamesOf(lst) == [i \in DOMAIN lst |-> lst[i].name]

\* a str argument used as a condition: None and "" are false
Given(x) == x # None /\ x # ""

\* PlaceIndex._filter
PlaceFilter(items, c) ==
  NamesOf(SelectSeq(items, LAMBDA e :
     /\ ~(Given(c.place_type) /\ e.meta.type # c.place_type)
     /\ ~(Given(c.region) /\ e.meta.region # c.region)
     /\ ~(c.common = "True" /\ ~e.meta.common)
     /\ ~(c.common = "False" /\ e.meta.common)))

\* PlaceIndex.query_category after the category check
PlaceQueryBucket(idx, cch, order, c) ==
  LET g == Gather(idx, cch, order[c.category], c.length, c.v1, c.v2)
      dedup == DedupByName(g.out)
      m == RANDOM_LETTER_RE_place(Upper(c.rc))
  IN  IF ConstraintGiven(c.rc) /\ m = << >>
        THEN [res |-> Raised("ValueError"), cache |-> g.cache]
        ELSE LET placed == IF ConstraintGiven(c.rc)
                             THEN NameConstraintFilter(dedup, m) ELSE dedup
             IN  [ res |-> Returned(PlaceFilter(
                              NameVowelFilter(placed, c.more_vowels), c)),
                   cache |-> g.cache ]

\* a query_category that answers an unknown category with no candidates
PlaceQueryCategoryLenient(idx, cch, order, c) ==
  IF c.category \notin DOMAIN CATEGORY_MAP_place
    THEN [res |-> Returned(<<>>), cache |-> cch]
    ELSE PlaceQueryBucket(idx, cch, order, c)

\* PlaceIndex.query_category: what it returns or raises, and the cache after it
PlaceQueryCategory(idx, cch, order, c) ==
  IF c.category \notin DOMAIN CATEGORY_MAP_place
    THEN [res |-> Raised("ValueError"), cache |-> cch]
    ELSE PlaceQueryBucket(idx, cch, order, c)

PlaceShapes == { <<4, 2, 4>>, <<6, 2, 4>>, <<13, 2, 3>>, <<5, 1, 0>> }

PlaceConstraints ==
  { NoneStr, <<>>, <<"3","B">>, <<"7","b">>, <<"8","B">>, <<"0","B">>,
    <<"B","3">>, <<"1","4","L">> }

PlaceTypes == { None, "city", "country" }

Regions == { None, "NA" }

PlaceCategoryCall(sh, cat, rc, mv, pt, rg, cm) ==
  [NoCall EXCEPT !.op = "query_category", !.length = sh[1], !.category = cat,
                 !.v1 = sh[2], !.v2 = sh[3], !.rc = rc, !.more_vowels = mv,
                 !.place_type = pt, !.region = rg, !.common = cm]

PlaceCategoryCalls ==
  { PlaceCategoryCall(sh, cat, rc, None, None, None, None) :
      sh \in PlaceShapes, cat \in Categories, rc \in PlaceConstraints }
  \cup
  { PlaceCategoryCall(sh, cat, rc, mv, pt, rg, cm) :
      sh \in { <<4, 2, 4>>, <<6, 2, 4>> }, cat \in {1, 2, 4},
      rc \in { NoneStr, <<"3","B">> },
      mv \in Tri, pt \in PlaceTypes, rg \in Regions, cm \in Tri }

DoQueryCategoryPlace(c) ==
  LET r == PlaceQueryCategory(index, cache, setOrder, c)
  IN  /\ call' = c
      /\ result' = r.res
      /\ cache' = r.cache
      /\ index' = IF c.category \in DOMAIN CATEGORY_MAP_place
                    THEN IndexAfterGather(index, cache, setOrder[c.category],
                                          c.length, c.v1, c.v2)
                    ELSE index
      /\ UNCHANGED << pc, buildVars, inputVars, svcVars >>

QueryCategoryPlace ==
  /\ cls = "PlaceIndex" /\ pc = "ready" /\ call.op = "none"
  /\ \E c \in PlaceCategoryCalls : DoQueryCategoryPlace(c)
  /\ UNCHANGED seqVars

PlaceQueryCalls ==
  { [NoCall EXCEPT !.op = "query", !.length = sh[1], !.first_letter = l,
                   !.v1 = sh[2], !.v2 = sh[3],
                   !.place_type = pt, !.region = rg, !.common = cm] :
      sh \in { <<4, 2, 4>>, <<6, 2, 4>> }, l \in { "c", "J", "m", "g" },
      pt \in PlaceTypes, rg \in Regions, cm \in Tri }

\* PlaceIndex.query
DoQueryPlace(c) ==
  /\ call' = c
  /\ result' = Returned(PlaceFilter(
                  Lookup(index, cache, c.length, c.first_letter, c.v1, c.v2), c))
  /\ cache' = CacheAfter(index, cache, c.length, c.first_letter, c.v1, c.v2)
  /\ index' = IndexAfterLookup(index, cache, c.length, c.first_letter, c.v1, c.v2)
  /\ UNCHANGED << pc, buildVars, inputVars, svcVars >>

QueryPlace ==
  /\ cls = "PlaceIndex" /\ pc = "ready" /\ call.op = "none"
  /\ \E c \in PlaceQueryCalls : DoQueryPlace(c)
  /\ UNCHANGED seqVars

(***************************************************************************)
(* FirstNameIndex: inputs, build and queries.                              *)
(***************************************************************************)
NameRow(n, g, o, ru, rw) ==
  [kind |-> "row", name |-> n, gender |-> g, origin |-> o,
   rank_us |-> ru, rank_world |-> rw]

\* a row starting with "#"
CommentRow ==
  [kind |-> "comment", name |-> <<"#">>, gender |-> "", origin |-> <<>>,
   rank_us |-> 0, rank_world |-> 0]

\* a row with fewer than five columns
ShortRow ==
  [kind |-> "short", name |-> w_john, gender |-> "m", origin |-> <<>>,
   rank_us |-> 0, rank_world |-> 0]

NameFiles ==
  { << NameRow(w_john, "m", <<"U","S">>, 1, 20),
       NameRow(w_Alex, "u", <<"u","s">>, 75, 130),
       NameRow(w_alex, "M", <<"G","B">>, 0, 0),
       NameRow(w_mary, "f", <<"U","S">>, 1, 50),
       NameRow(w_li, "m", <<"C","N">>, 0, 1) >>,
    << NameRow(w_Jo_Ann, "f", <<"U","S">>, 300, 0),
       NameRow(w_mary_ann, "f", <<"U","S">>, 40, 0),
       CommentRow,
       NameRow(w_john, "x", <<"U","S","A">>, 250, 900),
       ShortRow >> }

NameDatasets == Windows(NameFiles)

\* rhyme_flags.tsv absent, or listing john with flag 1 and mary with flag 0
RhymeFiles == { {}, { <<w_john, "1">>, <<w_mary, "0">> } }

\* the nicknames file absent, or listing john and alex
NicknameFiles ==
  { <<>>, ( w_john :> <<"jack", "johnny">> ) @@ ( w_alex :> <<"al", "">> ) }

\* first_name_index.RHYME_SET: every listed word, whatever its flag
NameRhymeSet(flags) == { Lower(r[1]) : r \in flags }

\* FirstNameIndex._load_nicknames: self._nick_set
NickSet(nicks) == DOMAIN nicks

\* FirstNameIndex._load_nicknames: self._nick_count
NickCount(nicks) ==
  [f \in DOMAIN nicks |-> Len(SelectSeq(nicks[f], LAMBDA n : n # ""))]

\* as NameCommon, but the world rank is not looked at
NameCommonUsOnly(rank_us, rank_world) ==
  rank_us # 0 /\ rank_us <= 200

\* the truth value of "rank_us and rank_us <= 200 or rank_world and rank_world <= 200"
NameCommon(rank_us, rank_world) ==
  (rank_us # 0 /\ rank_us <= 200) \/ (rank_world # 0 /\ rank_world <= 200)

\* as NameMeta, but a name the nickname table does not list counts one nickname
NameMetaCountsOne(name, gender, origin, rank_us, rank_world) ==
  [ gender |-> IF gender \in {"m", "f"} THEN gender ELSE "u",
    origin |-> IF Len(origin) = 2 THEN origin ELSE NoneStr,
    rank_us |-> rank_us,
    count |-> rank_world,
    common |-> NameCommon(rank_us, rank_world),
    has_nickname |-> name \in NickSet(NICKNAMES),
    rhyme |-> name \in NameRhymeSet(RHYME_FLAGS),
    nick_count |-> Get(NickCount(NICKNAMES), name, 1) ]

NameMeta(name, gender, origin, rank_us, rank_world) ==
  [ gender |-> IF gender \in {"m", "f"} THEN gender ELSE "u",
    origin |-> IF Len(origin) = 2 THEN origin ELSE NoneStr,
    rank_us |-> rank_us,
    count |-> rank_world,
    common |-> NameCommon(rank_us, rank_world),
    has_nickname |-> name \in NickSet(NICKNAMES),
    rhyme |-> name \in NameRhymeSet(RHYME_FLAGS),
    nick_count |-> Get(NickCount(NICKNAMES), name, 0) ]

\* FirstNameIndex._build with _load_rows, one row of the file
AddNameRow ==
  /\ cls = "FirstNameIndex" /\ pc = "read" /\ file # <<>>
  /\ LET row == Head(file)
         name == Lower(row.name)
         e == [name |-> name,
               meta |-> NameMeta(name, LowerCh(row.gender), Upper(row.origin),
                                 row.rank_us, row.rank_world)]
     IN  /\ file' = Tail(file)
         /\ IF row.kind = "short"
              THEN pc' = "failed" /\ UNCHANGED << index, firstIns, dupIns >>
              ELSE /\ pc' = pc
                   /\ IF \/ row.kind = "comment"
                         \/ " " \in Range(name)
                         \/ vowel_positions(name) = <<>>
                        THEN UNCHANGED << index, firstIns, dupIns >>
                        ELSE /\ index' = Append1(index, PlaceKey(name), e)
                             /\ firstIns' = IF name \in DOMAIN firstIns THEN firstIns
                                            ELSE firstIns @@ (name :> e)
                             /\ dupIns' = IF name \in DOMAIN firstIns
                                            THEN dupIns \cup {name} ELSE dupIns
  /\ UNCHANGED << subject_counts, keyword_subjects, todo, inputVars,
                  cache, call, result, seqVars, svcVars >>

\* "Deduplicate names preserving order"; the constructor returns
NameDeduplicate ==
  /\ cls = "FirstNameIndex" /\ pc = "read" /\ file = <<>>
  /\ index' = [k \in DOMAIN index |-> DedupByName(index[k])]
  /\ pc' = "ready"
  /\ UNCHANGED << buildVars, inputVars, cache, call, result, seqVars, svcVars >>

MS_LETTERS == { "m", "t", "s", "f", "w" }

\* FirstNameIndex._filter
NameFilter(items, c) ==
  NamesOf(SelectSeq(items, LAMBDA e :
     /\ ~(Given(c.gender) /\ e.meta.gender # c.gender)
     /\ ~(ConstraintGiven(c.origin) /\ e.meta.origin # Upper(c.origin))
     /\ ~(c.common = "True" /\ ~e.meta.common)
     /\ ~(c.common = "False" /\ e.meta.common)
     /\ ~(c.nickname = "nickname" /\ ~e.meta.has_nickname)
     /\ ~(c.nickname = "multiple" /\ e.meta.nick_count < 2)
     /\ ~(c.nickname = "none" /\ e.meta.has_nickname)
     /\ ~(c.rhyme = "True" /\ ~e.meta.rhyme)
     /\ ~(c.rhyme = "False" /\ e.meta.rhyme)))

\* query_category: n is the name, n[0] its first letter
MsFilterCategory(lst, ms) ==
  IF ms = "True" THEN SelectSeq(lst, LAMBDA e : e.name[1] \in MS_LETTERS)
  ELSE IF ms = "False" THEN SelectSeq(lst, LAMBDA e : e.name[1] \notin MS_LETTERS)
  ELSE lst

\* query: n is the pair (name, meta), n[0] the whole name
MsFilterExact(lst, ms) ==
  IF ms = "True" THEN SelectSeq(lst, LAMBDA e : e.name \in { <<l>> : l \in MS_LETTERS })
  ELSE IF ms = "False"
    THEN SelectSeq(lst, LAMBDA e : e.name \notin { <<l>> : l \in MS_LETTERS })
  ELSE lst

\* FirstNameIndex.query_category: what it returns or raises, and the cache after it
NameQueryCategory(idx, cch, order, c) ==
  IF c.category \notin DOMAIN CATEGORY_MAP_name
    THEN [res |-> Raised("ValueError"), cache |-> cch]
    ELSE LET g == Gather(idx, cch, order[c.category], c.length, c.v1, c.v2)
             dedup == DedupByName(g.out)
             m == RANDOM_LETTER_RE_name(Upper(c.rc))
         IN  IF ConstraintGiven(c.rc) /\ m = << >>
               THEN [res |-> Raised("ValueError"), cache |-> g.cache]
               ELSE LET placed == IF ConstraintGiven(c.rc)
                                    THEN NameConstraintFilter(dedup, m) ELSE dedup
                    IN  [ res |-> Returned(NameFilter(
                                     MsFilterCategory(
                                       NameVowelFilter(placed, c.more_vowels), c.ms), c)),
                          cache |-> g.cache ]

NameShapes == { <<4, 2, 0>>, <<4, 1, 3>>, <<4, 2, 4>>, <<6, 2, 4>> }

NameConstraints ==
  { NoneStr, <<>>, <<"4","n">>, <<"3","A">>, <<"0","N">>, <<"N","4">>, <<"4">> }

Genders == { None, "m", "f" }

Origins == { NoneStr, <<"u","s">> }

NicknameModes == { None, "nickname", "multiple", "none" }

NameCategoryCall(sh, cat, rc, mv, g, o, cm, nk, rh, ms) ==
  [NoCall EXCEPT !.op = "query_category", !.length = sh[1], !.category = cat,
                 !.v1 = sh[2], !.v2 = sh[3], !.rc = rc, !.more_vowels = mv,
                 !.gender = g, !.origin = o, !.common = cm, !.nickname = nk,
                 !.rhyme = rh, !.ms = ms]

NameCategoryCalls ==
  { NameCategoryCall(sh, cat, rc, None, None, NoneStr, None, None, None, None) :
      sh \in NameShapes, cat \in Categories, rc \in NameConstraints }
  \cup
  { NameCategoryCall(sh, cat, rc, mv, g, o, cm, None, None, None) :
      sh \in { <<4, 2, 0>>, <<4, 1, 3>> }, cat \in {1, 2, 4},
      rc \in { NoneStr, <<"4","n">> },
      mv \in Tri, g \in Genders, o \in Origins, cm \in Tri }
  \cup
  { NameCategoryCall(sh, cat, rc, None, None, NoneStr, None, nk, rh, ms) :
      sh \in { <<4, 2, 0>>, <<4, 1, 3>> }, cat \in {1, 2, 4},
      rc \in { NoneStr, <<"4","n">> },
      nk \in NicknameModes, rh \in Tri, ms \in Tri }

DoQueryCategoryName(c) ==
  LET r == NameQueryCategory(index, cache, setOrder, c)
  IN  /\ call' = c
      /\ result' = r.res
      /\ cache' = r.cache
      /\ index' = IF c.category \in DOMAIN CATEGORY_MAP_name
                    THEN IndexAfterGather(index, cache, setOrder[c.category],
                                          c.length, c.v1, c.v2)
                    ELSE index
      /\ UNCHANGED << pc, buildVars, inputVars, svcVars >>

QueryCategoryName ==
  /\ cls = "FirstNameIndex" /\ pc = "ready" /\ call.op = "none"
  /\ \E c \in NameCategoryCalls : DoQueryCategoryName(c)
  /\ UNCHANGED seqVars

NameQueryCalls ==
  { [NoCall EXCEPT !.op = "query", !.length = sh[1], !.first_letter = l,
                   !.v1 = sh[2], !.v2 = sh[3], !.gender = g, !.common = cm,
                   !.rhyme = rh, !.ms = ms] :
      sh \in { <<4, 2, 0>>, <<4, 1, 3>>, <<4, 2, 4>> }, l \in { "j", "A", "m" },
      g \in { None, "m" }, cm \in Tri, rh \in Tri, ms \in Tri }

\* FirstNameIndex.query
DoQueryName(c) ==
  /\ call' = c
  /\ result' = Returned(NameFilter(
                  MsFilterExact(
                    Lookup(index, cache, c.length, c.first_letter, c.v1, c.v2),
                    c.ms), c))
  /\ cache' = CacheAfter(index, cache, c.length, c.first_letter, c.v1, c.v2)
  /\ index' = IndexAfterLookup(index, cache, c.length, c.first_letter, c.v1, c.v2)
  /\ UNCHANGED << pc, buildVars, inputVars, svcVars >>

QueryName ==
  /\ cls = "FirstNameIndex" /\ pc = "ready" /\ call.op = "none"
  /\ \E c \in NameQueryCalls : DoQueryName(c)
  /\ UNCHANGED seqVars

Init ==
  /\ \/ /\ cls = "WordIndex"
        /\ file \in NounDatasets
        /\ HOLDABLE_SET \in HoldableSets
        /\ LABELS_DICT \in LabelTables
        /\ RHYME_FLAGS = {}
        /\ NICKNAMES = <<>>
        /\ setOrder \in SetOrdersOf(CATEGORY_MAP)
     \/ /\ cls = "PlaceIndex"
        /\ file \in PlaceDatasets
        /\ HOLDABLE_SET = {}
        /\ LABELS_DICT = <<>>
        /\ RHYME_FLAGS = {}
        /\ NICKNAMES = <<>>
        /\ setOrder \in SetOrdersOf(CATEGORY_MAP_place)
     \/ /\ cls = "FirstNameIndex"
        /\ file \in NameDatasets
        /\ HOLDABLE_SET = {}
        /\ LABELS_DICT = <<>>
        /\ RHYME_FLAGS \in RhymeFiles
        /\ NICKNAMES \in NicknameFiles
        /\ setOrder \in SetOrdersOf(CATEGORY_MAP_name)
  /\ pc = "read"
  /\ subject_counts = <<>>
  /\ keyword_subjects = {}
  /\ todo = {}
  /\ index = <<>>
  /\ firstIns = <<>>
  /\ cache = <<>>
  /\ call = NoCall
  /\ result = NoResult
  /\ dupIns = {}
  /\ ncalls = 0
  /\ mark = NoMark
  /\ task = "start"
  /\ app_index = None
  /\ places_index = None
  /\ names_index = None
  /\ INDEX_READY = FALSE
  /\ handler = <<>>
  /\ requests = 0

Next ==
  \/ ReadLine
  \/ EndOfFile
  \/ InsertSubject
  \/ Deduplicate
  \/ AddCompoundFlags
  \/ ApplyGeminiLabels
  \/ FilterExcludedCategories
  \/ QueryCategoryWord
  \/ QueryWord
  \/ AddCountry
  \/ AddCity
  \/ PlaceDeduplicate
  \/ QueryCategoryPlace
  \/ QueryPlace
  \/ AddNameRow
  \/ NameDeduplicate
  \/ QueryCategoryName
  \/ QueryName

Spec == Init /\ [][Next]_vars

(***************************************************************************)
(* Sequences of queries on one built index.                                *)
(***************************************************************************)
\* queries made in one run
MaxCalls == 3

\* the call being made is remembered if none is yet; once one is, a
\* different later call is noted
Remember(c, r) ==
  /\ ncalls' = ncalls + 1
  /\ IF mark.at = 0
       THEN \/ mark' = mark
            \/ mark' = [call |-> c, result |-> r, at |-> ncalls + 1, between |-> FALSE]
       ELSE mark' = [mark EXCEPT !.between = @ \/ (c # mark.call)]

ExactCall(sh, l) ==
  [NoCall EXCEPT !.op = "query", !.length = sh[1], !.first_letter = l,
                 !.v1 = sh[2], !.v2 = sh[3]]

SeqWordCategoryCalls ==
  { WordCategoryCall(<<3, 2, 0>>, 2, NoneStr, None, None, None),
    WordCategoryCall(<<3, 2, 0>>, 3, <<"2","a">>, None, None, None),
    WordCategoryCall(<<3, 2, 3>>, 2, <<"T","3">>, None, None, None) }

SeqWordQueryCalls == { ExactCall(<<3, 2, 0>>, "c"), ExactCall(<<3, 2, 3>>, "c") }

SeqQueryCategoryWord ==
  /\ cls = "WordIndex" /\ pc = "ready" /\ ncalls < MaxCalls
  /\ \E c \in SeqWordCategoryCalls :
       DoQueryCategoryWord(c) /\ Remember(c, result')

SeqQueryWord ==
  /\ cls = "WordIndex" /\ pc = "ready" /\ ncalls < MaxCalls
  /\ \E c \in SeqWordQueryCalls : DoQueryWord(c) /\ Remember(c, result')

SeqPlaceCategoryCalls ==
  { PlaceCategoryCall(<<4, 2, 4>>, 2, NoneStr, None, None, None, None),
    PlaceCategoryCall(<<4, 2, 4>>, 3, NoneStr, None, None, None, None),
    PlaceCategoryCall(<<6, 2, 4>>, 1, <<"3","n">>, None, "country", None, None),
    PlaceCategoryCall(<<4, 2, 4>>, 4, NoneStr, None, None, None, None) }

SeqPlaceQueryCalls ==
  { ExactCall(<<4, 2, 4>>, "c"), ExactCall(<<4, 2, 3>>, "c"),
    ExactCall(<<4, 2, 3>>, "j") }

SeqQueryCategoryPlace ==
  /\ cls = "PlaceIndex" /\ pc = "ready" /\ ncalls < MaxCalls
  /\ \E c \in SeqPlaceCategoryCalls :
       DoQueryCategoryPlace(c) /\ Remember(c, result')

SeqQueryPlace ==
  /\ cls = "PlaceIndex" /\ pc = "ready" /\ ncalls < MaxCalls
  /\ \E c \in SeqPlaceQueryCalls : DoQueryPlace(c) /\ Remember(c, result')

SeqNameCategoryCalls ==
  { NameCategoryCall(<<4, 2, 0>>, 2, NoneStr, None, None, NoneStr, None, None, None, None),
    NameCategoryCall(<<4, 1, 3>>, 1, NoneStr, None, None, NoneStr, None, None, None, None),
    NameCategoryCall(<<6, 2, 4>>, 3, <<"2","o">>, None, "f", NoneStr, None, None, None, None) }

SeqNameQueryCalls ==
  { ExactCall(<<4, 2, 0>>, "j"), ExactCall(<<4, 2, 3>>, "j"),
    ExactCall(<<4, 1, 0>>, "a") }

SeqQueryCategoryName ==
  /\ cls = "FirstNameIndex" /\ pc = "ready" /\ ncalls < MaxCalls
  /\ \E c \in SeqNameCategoryCalls :
       DoQueryCategoryName(c) /\ Remember(c, result')

SeqQueryName ==
  /\ cls = "FirstNameIndex" /\ pc = "ready" /\ ncalls < MaxCalls
  /\ \E c \in SeqNameQueryCalls : DoQueryName(c) /\ Remember(c, result')

\* the runs of query sequences: every dataset, the side tables fixed
InitSeq ==
  /\ Init
  /\ HOLDABLE_SET = {}
  /\ cls = "WordIndex" => LABELS_DICT # <<>>
  /\ RHYME_FLAGS = {}
  /\ NICKNAMES = <<>>

NextSeq ==
  \/ ReadLine
  \/ EndOfFile
  \/ InsertSubject
  \/ Deduplicate
  \/ AddCompoundFlags
  \/ ApplyGeminiLabels
  \/ FilterExcludedCategories
  \/ SeqQueryCategoryWord
  \/ SeqQueryWord
  \/ AddCountry
  \/ AddCity
  \/ PlaceDeduplicate
  \/ SeqQueryCategoryPlace
  \/ SeqQueryPlace
  \/ AddNameRow
  \/ NameDeduplicate
  \/ SeqQueryCategoryName
  \/ SeqQueryName

SpecSeq == InitSeq /\ [][NextSeq]_vars

(***************************************************************************)
(* The service: api/main.py.                                               *)
(***************************************************************************)
\* requests received in one run
MaxRequests == 3

\* the worker threads serving requests
Threads == { 1, 2 }

Endpoints == { "query", "query_place", "query_first_name" }

\* categories sent: a valid one and an invalid one
SentCategories == { 2, 5 }

Idle ==
  [ pc |-> "idle", endpoint |-> None, category |-> 0, ready |-> "unread",
    obj |-> "unread", status |-> 0, late |-> FALSE ]

\* a start-up that raises the flag before it assigns the globals
StartupStepsFlagFirst ==
  << "set_ready", "assign_index", "assign_places", "assign_names" >>

\* the statements of _startup_build_indexes after the build returned
StartupSteps ==
  << "assign_index", "assign_places", "assign_names", "set_ready" >>

\* a task that ends one statement early
AfterStepEndsEarly(step) ==
  LET i == CHOOSE j \in DOMAIN StartupSteps : StartupSteps[j] = step
  IN  IF i >= Len(StartupSteps) - 1 THEN "done" ELSE StartupSteps[i + 1]

\* the position after the statement step
AfterStep(step) ==
  LET i == CHOOSE j \in DOMAIN StartupSteps : StartupSteps[j] = step
  IN  IF i = Len(StartupSteps) THEN "done" ELSE StartupSteps[i + 1]

\* startup_event: asyncio.create_task(_startup_build_indexes()), which
\* submits build_all_indexes_sync to the process pool and awaits it
StartBuild ==
  /\ task = "start"
  /\ task' = "building"
  /\ UNCHANGED << app_index, places_index, names_index, INDEX_READY, handler,
                  requests, cls, pc, index, buildVars, HOLDABLE_SET, LABELS_DICT,
                  RHYME_FLAGS, NICKNAMES, setOrder, cache, call, result, seqVars >>

\* build_all_indexes_sync returns the three indexes
BuildReturns ==
  /\ task = "building"
  /\ task' = StartupSteps[1]
  /\ UNCHANGED << app_index, places_index, names_index, INDEX_READY, handler,
                  requests, cls, pc, index, buildVars, HOLDABLE_SET, LABELS_DICT,
                  RHYME_FLAGS, NICKNAMES, setOrder, cache, call, result, seqVars >>

\* a constructor raises; "except Exception" logs it and the task ends
BuildRaises ==
  /\ task = "building"
  /\ task' = "failed"
  /\ UNCHANGED << app_index, places_index, names_index, INDEX_READY, handler,
                  requests, cls, pc, index, buildVars, HOLDABLE_SET, LABELS_DICT,
                  RHYME_FLAGS, NICKNAMES, setOrder, cache, call, result, seqVars >>

\* index = built_index
AssignIndex ==
  /\ task = "assign_index"
  /\ app_index' = "WordIndex"
  /\ task' = AfterStep("assign_index")
  /\ UNCHANGED << places_index, names_index, INDEX_READY, handler,
                  requests, cls, pc, index, buildVars, HOLDABLE_SET, LABELS_DICT,
                  RHYME_FLAGS, NICKNAMES, setOrder, cache, call, result, seqVars >>

\* places_index = built_places
AssignPlaces ==
  /\ task = "assign_places"
  /\ places_index' = "PlaceIndex"
  /\ task' = AfterStep("assign_places")
  /\ UNCHANGED << app_index, names_index, INDEX_READY, handler,
                  requests, cls, pc, index, buildVars, HOLDABLE_SET, LABELS_DICT,
                  RHYME_FLAGS, NICKNAMES, setOrder, cache, call, result, seqVars >>

\* names_index = built_names
AssignNames ==
  /\ task = "assign_names"
  /\ names_index' = "FirstNameIndex"
  /\ task' = AfterStep("assign_names")
  /\ UNCHANGED << app_index, places_index, INDEX_READY, handler,
                  requests, cls, pc, index, buildVars, HOLDABLE_SET, LABELS_DICT,
                  RHYME_FLAGS, NICKNAMES, setOrder, cache, call, result, seqVars >>

\* _INDEX_READY = True
SetReady ==
  /\ task = "set_ready"
  /\ INDEX_READY' = TRUE
  /\ task' = AfterStep("set_ready")
  /\ UNCHANGED << app_index, places_index, names_index, handler,
                  requests, cls, pc, index, buildVars, HOLDABLE_SET, LABELS_DICT,
                  RHYME_FLAGS, NICKNAMES, setOrder, cache, call, result, seqVars >>

\* the values of the service a handler step leaves alone
HandlerUnchanged ==
  UNCHANGED << task, app_index, places_index, names_index, INDEX_READY,
               cls, pc, index, buildVars, HOLDABLE_SET, LABELS_DICT,
               RHYME_FLAGS, NICKNAMES, setOrder, cache, call, result, seqVars >>

\* a request arrives and a free worker thread takes it
Receive ==
  /\ requests < MaxRequests
  /\ \E h \in Threads, ep \in Endpoints, cat \in SentCategories :
       /\ handler[h].pc = "idle"
       /\ handler' = [handler EXCEPT ![h] =
                        [Idle EXCEPT !.pc = "check_ready", !.endpoint = ep,
                                     !.category = cat, !.late = (task = "failed")]]
  /\ requests' = requests + 1
  /\ HandlerUnchanged

\* if not _INDEX_READY: raise HTTPException(status_code=503, ...)
CheckReady ==
  /\ \E h \in Threads :
       /\ handler[h].pc = "check_ready"
       /\ handler' = [handler EXCEPT ![h] =
            IF ~INDEX_READY
              THEN [@ EXCEPT !.ready = "False", !.pc = "responded", !.status = 503]
              ELSE [@ EXCEPT !.ready = "True", !.pc = "check_index"]]
  /\ UNCHANGED requests
  /\ HandlerUnchanged

\* the global an endpoint uses
GlobalOf(ep) ==
  IF ep = "query" THEN app_index
  ELSE IF ep = "query_place" THEN places_index
  ELSE names_index

\* if index is None: raise HTTPException(status_code=500, ...)
CheckIndex ==
  /\ \E h \in Threads :
       /\ handler[h].pc = "check_index"
       /\ LET obj == GlobalOf(handler[h].endpoint)
          IN  handler' = [handler EXCEPT ![h] =
                IF obj = None
                  THEN [@ EXCEPT !.obj = obj, !.pc = "responded", !.status = 500]
                  ELSE [@ EXCEPT !.obj = obj, !.pc = "check_category"]]
  /\ UNCHANGED requests
  /\ HandlerUnchanged

\* if q.category not in CATEGORY_MAP: raise HTTPException(status_code=400, ...)
CheckCategory ==
  /\ \E h \in Threads :
       /\ handler[h].pc = "check_category"
       /\ handler' = [handler EXCEPT ![h] =
            IF handler[h].category \notin DOMAIN CATEGORY_MAP
              THEN [@ EXCEPT !.pc = "responded", !.status = 400]
              ELSE [@ EXCEPT !.pc = "answer"]]
  /\ UNCHANGED requests
  /\ HandlerUnchanged

\* the statuses the rest of a handler can end with: query answers, or fails
\* on a ValueError of the index; query_place and query_first_name pass
\* holdable= to a query_category that does not take it, a TypeError
AnswerStatuses(ep) == IF ep = "query" THEN { 200, 500 } ELSE { 500 }

\* the rest of the handler: the calls on the index it read and the reply
Answer ==
  /\ \E h \in Threads :
       /\ handler[h].pc = "answer"
       /\ \E st \in AnswerStatuses(handler[h].endpoint) :
            handler' = [handler EXCEPT ![h] =
                          [@ EXCEPT !.pc = "responded", !.status = st]]
  /\ UNCHANGED requests
  /\ HandlerUnchanged

\* the response is sent and the thread is free again
Release ==
  /\ \E h \in Threads :
       /\ handler[h].pc = "responded"
       /\ handler' = [handler EXCEPT ![h] = Idle]
  /\ UNCHANGED requests
  /\ HandlerUnchanged

\* the service process before start-up: no index is constructed in it
InitSvc ==
  /\ cls = None
  /\ pc = "none"
  /\ file = <<>>
  /\ subject_counts = <<>>
  /\ keyword_subjects = {}
  /\ todo = {}
  /\ index = <<>>
  /\ firstIns = <<>>
  /\ dupIns = {}
  /\ HOLDABLE_SET = {}
  /\ LABELS_DICT = <<>>
  /\ RHYME_FLAGS = {}
  /\ NICKNAMES = <<>>
  /\ setOrder = AlphabeticalOrder
  /\ cache = <<>>
  /\ call = NoCall
  /\ result = NoResult
  /\ ncalls = 0
  /\ mark = NoMark
  /\ task = "start"
  /\ app_index = None
  /\ places_index = None
  /\ names_index = None
  /\ INDEX_READY = FALSE
  /\ handler = [h \in Threads |-> Idle]
  /\ requests = 0

NextSvc ==
  \/ StartBuild
  \/ BuildReturns
  \/ BuildRaises
  \/ AssignIndex
  \/ AssignPlaces
  \/ AssignNames
  \/ SetReady
  \/ Receive
  \/ CheckReady
  \/ CheckIndex
  \/ CheckCategory
  \/ Answer
  \/ Release

SpecSvc == InitSvc /\ [][NextSvc]_vars

\* the event loop runs the start-up task whenever it can take a step, and the
\* build in the process pool comes to an end, by returning or by raising
FairStartup ==
  /\ WF_vars(StartBuild)
  /\ WF_vars(BuildReturns \/ BuildRaises)
  /\ WF_vars(AssignIndex)
  /\ WF_vars(AssignPlaces)
  /\ WF_vars(AssignNames)
  /\ WF_vars(SetReady)

SpecSvcFair == SpecSvc /\ FairStartup

(***************************************************************************)
(* Properties of the category query.                                       *)
(***************************************************************************)
\* the text of an index entry
TextOf(e) == IF cls = "WordIndex" THEN e.word ELSE e.name

\* the texts of the returned list, in order
ResultTexts ==
  IF cls = "WordIndex" THEN [i \in DOMAIN result.val |-> result.val[i].word]
  ELSE result.val

\* what a query returns for an entry: the entry for nouns, the name otherwise
ItemOf(e) == IF cls = "WordIndex" THEN e ELSE e.name

\* the call passes no optional filter besides, possibly, the constraint
NoFilters(c) ==
  /\ c.more_vowels = None /\ c.holdable = None /\ c.compound = None
  /\ c.place_type = None /\ c.region = None /\ c.common = None
  /\ c.gender = None /\ c.origin = NoneStr /\ c.nickname = None
  /\ c.rhyme = None /\ c.ms = None

\* what query_category of the constructed class answers to call c now
CategoryAnswer(c) ==
  IF cls = "WordIndex" THEN WordQueryCategory(index, setOrder, c)
  ELSE IF cls = "PlaceIndex" THEN PlaceQueryCategory(index, cache, setOrder, c).res
  ELSE NameQueryCategory(index, cache, setOrder, c).res

\* C1: query_category called with a category outside {1, 2, 3} raises an
\* error in WordIndex, PlaceIndex and FirstNameIndex alike; it never returns
\* a list
C1_InvalidCategoryRaises ==
  (call.op = "query_category" /\ call.category \notin {1, 2, 3})
    => result.kind = "error"

C1_Witness ==
  /\ cls = "PlaceIndex" /\ pc = "ready" /\ index # <<>>
  /\ call.op = "query_category" /\ call.category = 4
  /\ call.common = "True" /\ call.rc = <<"3","B">>
  /\ result = Raised("ValueError")

\* a 1-based position (at least 1) followed by exactly one letter
PositionThenLetter(rc) ==
  /\ Len(rc) >= 2
  /\ \A i \in 1..(Len(rc) - 1) : IsDigit(rc[i])
  /\ IsLetter(rc[Len(rc)])
  /\ ParseInt(SubSeq(rc, 1, Len(rc) - 1)) >= 1

\* C2: query_category called with a valid category and a constraint string
\* that is not a 1-based position followed by exactly one letter raises an
\* error; it never returns a list, empty or unfiltered
C2_MalformedConstraintRaises ==
  ( /\ call.op = "query_category" /\ call.category \in {1, 2, 3}
    /\ call.rc # NoneStr /\ ~PositionThenLetter(call.rc) )
    => result.kind = "error"

\* the p-th character of the text once blanks and hyphens are removed
LetterAt(text, p) ==
  LET letters == RemoveCh(RemoveCh(text, " "), "-")
  IN  IF 1 <= p /\ p <= Len(letters) THEN <<LowerCh(letters[p])>> ELSE <<>>

\* the texts the same call returns without its constraint
UnconstrainedTexts(c) ==
  LET r == CategoryAnswer([c EXCEPT !.rc = NoneStr]).val
  IN  IF cls = "WordIndex" THEN [i \in DOMAIN r |-> r[i].word] ELSE r

\* C3: a well-formed constraint <p><L> with no other filter returns exactly
\* the unfiltered candidates whose p-th character, counted on the text with
\* blanks and hyphens removed, is L in either case; shorter candidates are
\* dropped; the three indexes agree
C3_ConstraintCountsLettersOnly ==
  ( /\ call.op = "query_category" /\ call.category \in {1, 2, 3}
    /\ call.rc # NoneStr /\ PositionThenLetter(call.rc) /\ NoFilters(call) )
    => /\ result.kind = "list"
       /\ LET p == ParseInt(SubSeq(call.rc, 1, Len(call.rc) - 1))
              L == LowerCh(call.rc[Len(call.rc)])
          IN  ResultTexts =
                SelectSeq(UnconstrainedTexts(call), LAMBDA t : LetterAt(t, p) = <<L>>)

\* the index keys of the bucket's letters for the call's length and vowels
BucketKeys(c) ==
  { << c.length, LowerCh(l), c.v1, c.v2 >> : l \in CATEGORY_MAP[c.category] }

\* the entries stored under those keys
StoredUnder(c) ==
  UNION { Range(index[k]) : k \in BucketKeys(c) \cap DOMAIN index }

KeptFirst(e) ==
  IF cls = "WordIndex"
    THEN LET f == firstIns[e.word]
         IN  /\ e.freq_count = f.freq_count /\ e.common = f.common
             /\ e.holdable = f.holdable /\ e.compound = f.compound
    ELSE e = firstIns[e.name]

\* C5: after the build no bucket holds two entries with the same text, the
\* entry kept for a text is the first one inserted (a country before a city
\* of the same name), and no query or query_category result holds a text twice
C5_NoDuplicateTexts ==
  /\ pc = "ready" =>
       \A k \in DOMAIN index :
          /\ \A i, j \in DOMAIN index[k] :
               i # j => TextOf(index[k][i]) # TextOf(index[k][j])
          /\ \A i \in DOMAIN index[k] : KeptFirst(index[k][i])
  /\ result.kind = "list" =>
       \A i, j \in DOMAIN result.val : i # j => ResultTexts[i] # ResultTexts[j]

C5_Witness ==
  /\ cls = "PlaceIndex" /\ pc = "ready"
  /\ w_monaco \in dupIns
  /\ firstIns[w_monaco].meta.type = "country"
  /\ call.op = "query_category" /\ NoFilters(call)
  /\ result.kind = "list" /\ w_monaco \in Range(result.val)

\* C6: after the WordIndex build no entry has the category person, abstract
\* or place and no key maps to an empty list; no query result holds such an
\* entry
C6_ExcludedCategoriesAbsent ==
  cls = "WordIndex" =>
    /\ pc = "ready" =>
         \A k \in DOMAIN index :
            /\ index[k] # <<>>
            /\ \A i \in DOMAIN index[k] :
                 index[k][i].cat \notin { "person", "abstract", "place" }
    /\ result.kind = "list" =>
         \A i \in DOMAIN result.val :
            result.val[i].cat \notin { "person", "abstract", "place" }

C6_Witness ==
  /\ cls = "WordIndex" /\ pc = "ready"
  /\ LABELS_DICT # <<>>
  /\ w_zoo \in DOMAIN firstIns /\ w_bag \in DOMAIN firstIns
  /\ << 3, "z", 2, 3 >> \notin DOMAIN index
  /\ << 3, "b", 2, 0 >> \notin DOMAIN index
  /\ call.op = "query_category" /\ call.category = 3
  /\ call.length = 3 /\ call.v1 = 2 /\ call.v2 = 0 /\ NoFilters(call)
  /\ result = Returned(<<>>)

\* the buckets holding a letter
BucketsOf(l) == { b \in DOMAIN CATEGORY_MAP : l \in CATEGORY_MAP[b] }

\* the buckets whose unfiltered query for the key's length and vowel
\* positions returns the entry
BucketsReturning(k, e) ==
  { b \in {1, 2, 3} :
      ItemOf(e) \in Range(CategoryAnswer(
         [NoCall EXCEPT !.op = "query_category", !.length = k[1],
                        !.category = b, !.v1 = k[3], !.v2 = k[4]]).val) }

\* C10: the buckets cover the 26 letters, J and U lie in exactly buckets 2
\* and 3 and every other letter in exactly one; an indexed entry starting
\* with J or U is returned by the unfiltered queries of both buckets 2 and 3
\* for its own length and vowel positions, any other entry by exactly one
C10_BucketsCoverAlphabet ==
  /\ UNION { CATEGORY_MAP[b] : b \in DOMAIN CATEGORY_MAP } = Range(UpperAlpha)
  /\ \A l \in Range(UpperAlpha) :
       IF l \in { "J", "U" } THEN BucketsOf(l) = {2, 3}
       ELSE Cardinality(BucketsOf(l)) = 1
  /\ pc = "ready" =>
       \A k \in DOMAIN index : \A i \in DOMAIN index[k] :
          LET e == index[k][i]
          IN  IF TextOf(e)[1] \in { "j", "u" }
                THEN BucketsReturning(k, e) = {2, 3}
                ELSE Cardinality(BucketsReturning(k, e)) = 1

C10_Witness ==
  /\ cls = "WordIndex" /\ pc = "ready"
  /\ << 3, "j", 2, 0 >> \in DOMAIN index
  /\ << 3, "c", 2, 0 >> \in DOMAIN index
  /\ call.op = "query_category" /\ call.category = 3
  /\ call.rc = NoneStr /\ NoFilters(call)
  /\ result.kind = "list"
  /\ \E i \in DOMAIN result.val : result.val[i].word = w_jar
  /\ \A i \in DOMAIN result.val : result.val[i].word # w_cat

\* C9: two query_category calls with identical arguments on one built index
\* return identical lists in identical order, whatever queries were made
\* between them
C9_RepeatedCallSameResult ==
  (mark.at # 0 /\ mark.call.op = "query_category" /\ call = mark.call)
    => result = mark.result

C9_Witness ==
  /\ cls = "PlaceIndex"
  /\ mark.call.op = "query_category" /\ mark.at = 1 /\ mark.between
  /\ ncalls = 3 /\ call = mark.call
  /\ result.kind = "list" /\ Len(result.val) >= 2
  /\ result = mark.result
  /\ Len(cache) = CacheSize

(***************************************************************************)
(* Properties of the service.                                              *)
(***************************************************************************)
\* C7: the ready flag is true only if all three indexes have been built and
\* assigned; a query that finds the flag false is answered 503 and never
\* reads an index, and no query reads an absent index
C7_ReadyMeansAllAssigned ==
  /\ INDEX_READY =>
       /\ app_index # None /\ places_index # None /\ names_index # None
  /\ \A h \in DOMAIN handler :
       /\ handler[h].ready = "False" =>
            /\ handler[h].obj = "unread"
            /\ handler[h].pc = "responded" /\ handler[h].status = 503
       /\ handler[h].status = 503 => handler[h].ready = "False"
       /\ handler[h].obj # None

C7_Witness ==
  /\ task = "assign_names" /\ app_index # None /\ places_index # None
  /\ names_index = None
  /\ \E h \in DOMAIN handler :
       /\ handler[h].pc = "responded" /\ handler[h].status = 503
       /\ handler[h].endpoint = "query"

\* C8: the not-ready response is given only while the build is in progress;
\* a request received after the build failed is not answered with the
\* retryable "indexes are building" response
C8_FailedBuildIsDistinct ==
  \A h \in DOMAIN handler :
     (handler[h].late /\ handler[h].pc = "responded") => handler[h].status # 503


(***************************************************************************)
(* One category table and one constraint pattern in the three modules.     *)
(***************************************************************************)

\* wordnet_vowel_index.RANDOM_LETTER_RE.match(s) as << >> or its two groups
RANDOM_LETTER_RE_word(s) ==
  IF RandomLetterMatch(s) THEN << MatchPos(s), MatchLetter(s) >> ELSE << >>

\* C11: the category table and the positional-constraint pattern are the
\* same in the noun, place and first-name modules: every category selects
\* the same first letters in all three, and the constraint string of any
\* call is accepted by all three patterns or by none and parses to the same
\* (position, letter).
C11_SameTableAndPattern ==
  /\ CATEGORY_MAP_place = CATEGORY_MAP
  /\ CATEGORY_MAP_name = CATEGORY_MAP
  /\ (call.op = "query_category" /\ ConstraintGiven(call.rc)) =>
        /\ RANDOM_LETTER_RE_place(Upper(call.rc)) = RANDOM_LETTER_RE_word(Upper(call.rc))
        /\ RANDOM_LETTER_RE_name(Upper(call.rc)) = RANDOM_LETTER_RE_word(Upper(call.rc))
  /\ (call.op = "query_category" /\ call.category \in DOMAIN CATEGORY_MAP) =>
        /\ call.category \in DOMAIN CATEGORY_MAP_place
        /\ call.category \in DOMAIN CATEGORY_MAP_name
        /\ CATEGORY_MAP_place[call.category] = CATEGORY_MAP[call.category]
        /\ CATEGORY_MAP_name[call.category] = CATEGORY_MAP[call.category]

\* a place query of category 3 with a well-formed constraint has returned
C11_Witness ==
  /\ cls = "PlaceIndex"
  /\ call.op = "query_category"
  /\ call.category = 3
  /\ ConstraintGiven(call.rc)
  /\ RANDOM_LETTER_RE_word(Upper(call.rc)) # << >>
  /\ result.kind = "list"
  /\ Len(result.val) > 0


(***************************************************************************)
(* What query_category hands back for an entry.                            *)
(***************************************************************************)

\* every (text, metadata) record held by the index
StoredRecords ==
  UNION { Range(index[k]) : k \in DOMAIN index }

\* a and b are the same value; unlike =, defined for values of different shapes
SameValue(a, b) == ToString(a) = ToString(b)

\* C12: in all three domains every item of the list query_category returns
\* is a full record of the index, the text together with its metadata, and
\* not the bare text.
C12_ReturnsFullRecords ==
  (call.op = "query_category" /\ result.kind = "list") =>
    \A i \in DOMAIN result.val :
      \E e \in StoredRecords : SameValue(result.val[i], e)


(***************************************************************************)
(* Which subjects of the dataset the noun build keeps.                     *)
(***************************************************************************)

\* the text a subject is stored under
DisplayWord(subj_raw) == RemoveCh(subj_raw, "-")

\* the subject passes the vowel test and the classifier, and its category
\* after the overlay is not an excluded one
Indexable(subj_raw) ==
  /\ NounIndexed(subj_raw)
  /\ LabelEntry(NounEntry(subj_raw, 1), LABELS_DICT).cat \notin excluded_categories

\* a keyword subject is kept whatever its count
KeywordsRetained ==
  \A s \in keyword_subjects :
    Indexable(s) => DisplayWord(s) \in TextsOf(index)

\* a text that no keyword entry names is kept only if some subject of that
\* text was counted at least twice
SampledRetainedOnlyIfRepeated ==
  \A w \in TextsOf(index) :
    (\A s \in keyword_subjects : DisplayWord(s) # w) =>
       \E s \in DOMAIN subject_counts :
          DisplayWord(s) = w /\ subject_counts[s] >= 2

\* C13: after the noun build from the line-JSON dataset a subject named by a
\* 'keywords' entry is in the index, and a subject that only non-keyword
\* entries name is in the index only if the dataset holds it at least twice.
C13_FrequencyThreshold ==
  (cls = "WordIndex" /\ pc = "ready") =>
     KeywordsRetained /\ SampledRetainedOnlyIfRepeated


(***************************************************************************)
(* The compound flag after the noun build.                                 *)
(***************************************************************************)

HasSeparator(s) == " " \in Range(s) \/ "-" \in Range(s)

\* the subjects of the dataset the entries of text w were made from
SourcesOf(w) ==
  { s \in keyword_subjects \cup DOMAIN subject_counts :
      NounIndexed(s) /\ DisplayWord(s) = w }

\* w is two texts of the index, of three letters or more each, glued
SplitsIntoIndexed(w) ==
  \E i \in 3..(Len(w) - 3) :
     /\ SubSeq(w, 1, i) \in TextsOf(index)
     /\ SubSeq(w, i + 1, Len(w)) \in TextsOf(index)

\* C14: after the noun build an entry is flagged compound exactly when its
\* source text has a space or a hyphen or its text splits into two texts of
\* the index of length 3 or more; a text without separator and without such
\* a split is flagged non-compound.
C14_CompoundFlag ==
  (cls = "WordIndex" /\ pc = "ready") =>
    \A e \in StoredRecords :
      /\ e.compound =>
           (\E s \in SourcesOf(e.word) : HasSeparator(s)) \/ SplitsIntoIndexed(e.word)
      /\ ((\A s \in SourcesOf(e.word) : HasSeparator(s)) \/ SplitsIntoIndexed(e.word))
           => e.compound


(***************************************************************************)
(* A boolean filter splits the unfiltered result.                          *)
(***************************************************************************)

\* the boolean filters query_category takes in the class built
BooleanFilters ==
  IF cls = "WordIndex" THEN { "more_vowels", "holdable", "compound" }
  ELSE IF cls = "PlaceIndex" THEN { "more_vowels", "common" }
  ELSE { "more_vowels", "common", "rhyme", "ms" }

\* the call in progress with filter f given as b
WithFilter(f, b) == [call EXCEPT ![f] = b]

\* the answer to the call in progress with filter f absent
AnswerWithout(f) ==
  IF call[f] = None THEN result ELSE CategoryAnswer(WithFilter(f, None))

\* lst is made of the items of yes and of no, each in its order, and no item
\* is in both
SplitsInto(lst, yes, no) ==
  /\ SelectSeq(lst, LAMBDA x : x \in Range(yes)) = yes
  /\ SelectSeq(lst, LAMBDA x : x \in Range(no)) = no
  /\ Range(yes) \cap Range(no) = {}
  /\ Range(yes) \cup Range(no) = Range(lst)

\* C15: for every boolean filter of query_category and the other arguments
\* of the call fixed, the list returned with the filter absent is the
\* order-preserving disjoint union of the lists returned with the filter
\* True and with the filter False, and the call raises with the filter
\* absent exactly when it raises with the filter given.
C15_FilterPartitions ==
  (pc = "ready" /\ call.op = "query_category") =>
    \A f \in BooleanFilters :
      LET n == AnswerWithout(f)
          t == CategoryAnswer(WithFilter(f, "True"))
          u == CategoryAnswer(WithFilter(f, "False"))
      IN  /\ n.kind = t.kind /\ n.kind = u.kind
          /\ n.kind = "list" => SplitsInto(n.val, t.val, u.val)

\* a noun query without the holdable filter returned three entries, some
\* holdable and some not
C15_Witness ==
  /\ cls = "WordIndex" /\ pc = "ready"
  /\ call.op = "query_category" /\ call.holdable = None
  /\ result.kind = "list" /\ Len(result.val) = 3
  /\ CategoryAnswer(WithFilter("holdable", "True")).val # <<>>
  /\ CategoryAnswer(WithFilter("holdable", "False")).val # <<>>


(***************************************************************************)
(* The keys of a built index.                                              *)
(***************************************************************************)

\* C16: every key (length, first_letter, v1, v2) of a built index, in the
\* three classes, has 1 <= v1 <= length and v2 = 0 or v1 < v2 <= length,
\* and v2 = 0 exactly when the entries of the bucket have a single vowel.
C16_KeyPositionsInRange ==
  pc = "ready" =>
    \A k \in DOMAIN index :
      /\ 1 <= k[3] /\ k[3] <= k[1]
      /\ k[4] = 0 \/ (k[3] < k[4] /\ k[4] <= k[1])
      /\ \A i \in DOMAIN index[k] :
           (k[4] = 0) <=> (Len(vowel_positions(TextOf(index[k][i]))) = 1)

\* a built index with a bucket of single-vowel texts and a bucket of texts
\* with two vowels or more
C16_Witness ==
  /\ pc = "ready"
  /\ \E k \in DOMAIN index : k[4] = 0
  /\ \E k \in DOMAIN index : k[4] > 0


(***************************************************************************)
(* An entry and the key of its bucket.                                     *)
(***************************************************************************)

\* the structural key of a text: the letters counted and the vowels located
\* with blanks and hyphens removed
StructuralKey(text) ==
  LET letters == RemoveCh(RemoveCh(text, " "), "-")
      vpos == vowel_positions(letters)
  IN  << Len(letters), text[1], first_v(vpos), second_v(vpos) >>

\* C17: in a built index of any of the three classes every entry has a vowel
\* and lies in the bucket whose key is computed from the entry's own text:
\* the number of characters left after removing separators, the first
\* character, the position of the first vowel and that of the second or 0;
\* hence no text lies in two buckets.
C17_StoredUnderOwnKey ==
  pc = "ready" =>
    /\ \A k \in DOMAIN index : \A i \in DOMAIN index[k] :
         /\ vowel_positions(TextOf(index[k][i])) # << >>
         /\ k = StructuralKey(TextOf(index[k][i]))
    /\ \A k1, k2 \in DOMAIN index :
         (\E i \in DOMAIN index[k1], j \in DOMAIN index[k2] :
             TextOf(index[k1][i]) = TextOf(index[k2][j])) => k1 = k2


(***************************************************************************)
(* The order of dedup, overlay and exclusion in the noun build.            *)
(***************************************************************************)

\* the subjects of the dataset that have a vowel
VowelSubjects ==
  { s \in keyword_subjects \cup DOMAIN subject_counts :
      vowel_positions(RemoveCh(RemoveCh(s, " "), "-")) # << >> }

\* the category of a subject once the label table has been laid over the
\* classifier's answer
CategoryAfterOverlay(s) == LabelEntry(NounEntry(s, 1), LABELS_DICT).cat

\* when the overlay is due or done, no bucket holds a text twice
OverlayAfterDedup ==
  pc \in {"labels", "exclude", "ready"} =>
    \A k \in DOMAIN index : \A i, j \in DOMAIN index[k] :
      index[k][i].word = index[k][j].word => i = j

\* when the exclusion is due the overlay is done and nothing was removed yet
ExclusionAfterOverlay ==
  pc = "exclude" =>
    /\ \A e \in StoredRecords :
         e.word \in DOMAIN LABELS_DICT => e.cat = LABELS_DICT[e.word].label
    /\ TextsOf(index) = DOMAIN firstIns

\* the exclusion is decided on the category after the overlay
ExcludedByFinalCategory ==
  pc = "ready" =>
    \A s \in VowelSubjects :
      (DisplayWord(s) \notin TextsOf(index))
        <=> (CategoryAfterOverlay(s) \in {"person", "abstract", "place"})

\* C18: in the noun build the label overlay runs after the per-bucket
\* deduplication and before the permanent exclusion, and a noun of the
\* dataset that has a vowel is absent from the final index if and only if
\* its category after the overlay is person, abstract or place.
C18_OverlayBetweenDedupAndExclusion ==
  cls = "WordIndex" =>
    OverlayAfterDedup /\ ExclusionAfterOverlay /\ ExcludedByFinalCategory


(***************************************************************************)
(* What the label overlay leaves alone.                                    *)
(***************************************************************************)

\* the step of the build that applies the label table
OverlayStep == pc = "labels" /\ pc' = "exclude"

\* C19: the label overlay keeps the keys of the index and, in every bucket,
\* the number, the order and the texts of the entries, and it leaves every
\* field of an entry whose text has no row in the label table as it was.
C19_OverlayTouchesLabelledOnly ==
  [][ OverlayStep =>
        /\ DOMAIN index' = DOMAIN index
        /\ \A k \in DOMAIN index :
             /\ Len(index'[k]) = Len(index[k])
             /\ \A i \in DOMAIN index[k] :
                  /\ index'[k][i].word = index[k][i].word
                  /\ index[k][i].word \notin DOMAIN LABELS_DICT
                       => index'[k][i] = index[k][i] ]_vars

\* the overlay has run on an index holding a man-made noun without a row
\* next to a noun with a row
C19_Witness ==
  /\ cls = "WordIndex" /\ pc = "exclude"
  /\ \E e \in StoredRecords : e.word \in DOMAIN LABELS_DICT /\ "label" \in DOMAIN e
  /\ \E e \in StoredRecords : e.word \notin DOMAIN LABELS_DICT /\ e.manmade


(***************************************************************************)
(* Queries leave the built index alone.                                    *)
(***************************************************************************)

\* C20: once the build is complete no step changes the index: after any
\* sequence of query and query_category calls, those that raise included,
\* the keys, the entries of every bucket, their order and their metadata
\* are what the build left.
C20_QueriesLeaveIndexUnchanged ==
  [][ pc = "ready" => index' = index ]_vars

\* a built, non-empty index has answered two calls or more, the last one by
\* raising, and an exact lookup has missed
C20_Witness ==
  /\ pc = "ready" /\ index # << >>
  /\ ncalls >= 2
  /\ result.kind = "error"
  /\ \E i \in DOMAIN cache : cache[i].val = << >>


(***************************************************************************)
(* The memoized lookup against a plain read of the index.                  *)
(***************************************************************************)

\* the read of the index that a lookup of the call's 4-tuple makes when
\* nothing is memoized
UncachedRead(c) == IndexGet(index, c.length, c.first_letter, c.v1, c.v2)

\* what the call returns when no lookup is memoized
UncachedAnswer(c) ==
  IF c.op = "query"
    THEN IF cls = "WordIndex" THEN Returned(UncachedRead(c))
         ELSE IF cls = "PlaceIndex" THEN Returned(PlaceFilter(UncachedRead(c), c))
         ELSE Returned(NameFilter(MsFilterExact(UncachedRead(c), c.ms), c))
    ELSE IF cls = "WordIndex" THEN WordQueryCategory(index, setOrder, c)
         ELSE IF cls = "PlaceIndex"
           THEN PlaceQueryCategory(index, << >>, setOrder, c).res
           ELSE NameQueryCategory(index, << >>, setOrder, c).res

\* C21: memoization has no observable effect: after any sequence of queries
\* on a built index, evictions included, the call just answered returned
\* what it returns with nothing memoized, and every memoized value is the
\* bucket an uncached read of the index gives for its 4-tuple.
C21_CacheIsTransparent ==
  pc = "ready" =>
    /\ call.op # "none" => result = UncachedAnswer(call)
    /\ \A i \in DOMAIN cache :
         cache[i].val = IndexGet(index, cache[i].key[1], cache[i].key[2],
                                 cache[i].key[3], cache[i].key[4])

\* after a category call that overflowed the cache, a later exact lookup
\* found a non-empty bucket, with the cache full
C21_Witness ==
  /\ cls = "PlaceIndex" /\ pc = "ready"
  /\ mark.call.op = "query_category" /\ mark.at # 0 /\ mark.at < ncalls
  /\ call.op = "query"
  /\ result.kind = "list" /\ result.val # << >>
  /\ Len(cache) = CacheSize


\* the build task is created once: it never goes back to its start, and it
\* enters the build only from its start
BuildStartedOnce ==
  [][ /\ task' = "start" => task = "start"
      /\ (task' = "building" /\ task # "building") => task = "start" ]_vars

\* once ready the flag stays set and the three references stay assigned
ReadyIsStable ==
  [][ INDEX_READY =>
        /\ INDEX_READY'
        /\ app_index' = app_index
        /\ places_index' = places_index
        /\ names_index' = names_index ]_vars

\* C22: the build task is started once at start-up; with the task scheduled
\* fairly, the build raises or the service eventually becomes ready; and once
\* ready the service stays ready: the flag is never reset and the three
\* index references are never reassigned.
C22_ReadyEventuallyAndForever ==
  /\ BuildStartedOnce
  /\ <>(task = "failed" \/ INDEX_READY)
  /\ ReadyIsStable

\* the task has finished, the service is ready and has answered a request
\* received after that with 200
C22_Witness ==
  /\ task = "done" /\ INDEX_READY
  /\ app_index # None /\ places_index # None /\ names_index # None
  /\ requests = MaxRequests
  /\ \E h \in Threads : handler[h].pc = "responded" /\ handler[h].status = 200


(***************************************************************************)
(* The order of the filters of WordIndex.query_category.                   *)
(***************************************************************************)

\* query_category with the filters in the documented sequence: positional
\* constraint, vowel count, holdable, compound
DocumentedSequence(idx, order, c) ==
  IF c.category \notin DOMAIN CATEGORY_MAP THEN Raised("ValueError")
  ELSE LET deduped == DedupByWord(
                        WordGather(idx, order[c.category], c.length, c.v1, c.v2))
       IN  IF ConstraintGiven(c.rc) /\ ~RandomLetterMatch(Upper(c.rc))
             THEN Raised("ValueError")
             ELSE LET placed == IF ConstraintGiven(c.rc)
                                  THEN WordConstraintFilter(deduped, c.rc)
                                  ELSE deduped
                      counted == WordVowelFilter(placed, c.more_vowels)
                      held == HoldableFilter(counted, c.holdable)
                  IN  Returned(CompoundFilter(held, c.compound))

\* C23: WordIndex.query_category, which filters on holdable before the
\* positional constraint, has for every call the outcome of the documented
\* sequence: the same list in the same order, or an error in the same cases.
C23_FilterOrderImmaterial ==
  (cls = "WordIndex" /\ pc = "ready" /\ call.op = "query_category") =>
     result = DocumentedSequence(index, setOrder, call)

\* a call with the holdable filter and a constraint returned an entry, and
\* each of the two filters alone removes entries of the buckets
C23_Witness ==
  /\ cls = "WordIndex" /\ pc = "ready" /\ HOLDABLE_SET # {}
  /\ call.op = "query_category"
  /\ call.holdable = "False" /\ ConstraintGiven(call.rc)
  /\ result.kind = "list" /\ result.val # << >>
  /\ LET all == CategoryAnswer([call EXCEPT !.rc = NoneStr, !.holdable = None]).val
     IN  /\ Len(CategoryAnswer([call EXCEPT !.rc = NoneStr]).val) < Len(all)
         /\ Len(CategoryAnswer([call EXCEPT !.holdable = None]).val) < Len(all)


(***************************************************************************)
(* The classifier.                                                         *)
(***************************************************************************)

\* the membership sets in their priority order
PrioritySets ==
  << [tag |-> "animal", words |-> ANIMALS],
     [tag |-> "food-plant", words |-> FOOD_PLANT],
     [tag |-> "clothing", words |-> CLOTHING],
     [tag |-> "furniture", words |-> FURNITURE],
     [tag |-> "vehicle-machine", words |-> VEHICLE_MACHINE],
     [tag |-> "object-tool", words |-> OBJECT_TOOL],
     [tag |-> "natural-material", words |-> NATURAL_MATERIAL] >>

\* the tag of the first set holding the lowercased word, else person for a
\* word of the person set, else unknown
FirstMatchingTag(word) ==
  LET hits == { i \in DOMAIN PrioritySets : Lower(word) \in PrioritySets[i].words }
  IN  IF hits # {}
        THEN PrioritySets[CHOOSE i \in hits : \A j \in hits : i <= j].tag
        ELSE IF Lower(word) \in PERSON_WORDS THEN "person" ELSE "unknown"

\* the strings the classifier is given: the subjects read so far, the same
\* in capitals, and the empty string
ClassifierInputs ==
  LET read == keyword_subjects \cup DOMAIN subject_counts
  IN  read \cup { Upper(s) : s \in read } \cup { << >> }

\* C24: while the build classifies, classify_subject answers every string
\* with the tag of the first set that holds the lowercased word, in the order
\* animal, food-plant,
\* clothing, furniture, vehicle-machine, object-tool, natural-material, else
\* person for a word of the person set, else unknown; and the manmade flag
\* is true exactly for clothing, furniture, vehicle-machine and object-tool.
C24_ClassifierFirstMatch ==
  (cls = "WordIndex" /\ pc = "insert") =>
    \A s \in ClassifierInputs :
      /\ classify_subject(s)[1] = FirstMatchingTag(s)
      /\ classify_subject(s)[2] <=>
           classify_subject(s)[1] \in
             { "clothing", "furniture", "vehicle-machine", "object-tool" }

\* the build has classified bag, a word of two sets, and an animal
C24_Witness ==
  /\ cls = "WordIndex" /\ pc = "compound"
  /\ w_bag \in DOMAIN subject_counts
  /\ \E e \in StoredRecords : e.word = w_bag /\ e.cat = "clothing" /\ e.manmade
  /\ \E e \in StoredRecords : e.cat = "animal" /\ ~e.manmade


(***************************************************************************)
(* Malformed rows of the datasets.                                         *)
(***************************************************************************)

\* every text the build inserted is in the finished index, unless excluded
InsertedRowsIndexed ==
  \A w \in DOMAIN firstIns :
    \/ \E e \in StoredRecords : TextOf(e) = w
    \/ cls = "WordIndex" /\ LabelEntry(firstIns[w], LABELS_DICT).cat \in {"person", "abstract", "place"}

\* C25: a malformed row of the dataset, for nouns a line that is not a JSON
\* object with a subject, for names a row with missing columns, is skipped:
\* the build is never aborted by it, and it completes with the rows it
\* inserted indexed.
C25_MalformedRowSkipped ==
  /\ pc # "failed"
  /\ pc = "ready" => InsertedRowsIndexed


(***************************************************************************)
(* Optional side files.                                                    *)
(***************************************************************************)

\* C26: when an optional side file is missing the build still completes and
\* the corresponding flag of every entry is false or absent: without
\* holdable flags no noun is holdable, without labels no noun carries label
\* fields, without rhyme flags no name rhymes, without nicknames no name has
\* a nickname and every nickname count is 0.
C26_MissingSideFiles ==
  pc = "ready" =>
    /\ cls = "WordIndex" /\ HOLDABLE_SET = {} =>
         \A e \in StoredRecords : ~e.holdable
    /\ cls = "WordIndex" /\ LABELS_DICT = <<>> =>
         \A e \in StoredRecords : DOMAIN e \cap {"origin", "size", "label"} = {}
    /\ cls = "FirstNameIndex" /\ RHYME_FLAGS = {} =>
         \A e \in StoredRecords : ~e.meta.rhyme
    /\ cls = "FirstNameIndex" /\ NICKNAMES = <<>> =>
         \A e \in StoredRecords : ~e.meta.has_nickname /\ e.meta.nick_count = 0

\* a first-name build without rhyme flags and nicknames has completed
C26_Witness ==
  /\ cls = "FirstNameIndex" /\ pc = "ready"
  /\ RHYME_FLAGS = {} /\ NICKNAMES = <<>>
  /\ Cardinality(StoredRecords) >= 2


(***************************************************************************)
(* The common flag of first names.                                         *)
(***************************************************************************)

\* the names stored with both ranks 0
UnrankedNames ==
  { e.name : e \in { x \in StoredRecords : x.meta.rank_us = 0 /\ x.meta.count = 0 } }

\* C27: the common flag of a first-name entry is true exactly when its US
\* rank or its world rank is in 1..200; a name with both ranks 0 is not
\* common, is never returned with common=True and is returned with
\* common=False whenever the same call without the common filter returns it.
C27_CommonByRank ==
  cls = "FirstNameIndex" =>
    /\ \A e \in StoredRecords :
         /\ e.meta.common <=> (e.meta.rank_us \in 1..200 \/ e.meta.count \in 1..200)
         /\ (e.meta.rank_us = 0 /\ e.meta.count = 0) => ~e.meta.common
    /\ (pc = "ready" /\ call.op = "query_category" /\ result.kind = "list") =>
         \A n \in UnrankedNames :
           /\ call.common = "True" => n \notin Range(result.val)
           /\ call.common = "False" =>
                (n \in Range(AnswerWithout("common").val) => n \in Range(result.val))

\* a first-name query with common=False returned a name with both ranks 0,
\* from an index that also holds a name common by its world rank only
C27_Witness ==
  /\ cls = "FirstNameIndex" /\ pc = "ready"
  /\ call.op = "query_category" /\ call.common = "False"
  /\ result.kind = "list" /\ Range(result.val) \cap UnrankedNames # {}
  /\ \E e \in StoredRecords : e.meta.rank_us = 0 /\ e.meta.count \in 1..200


(***************************************************************************)
(* The ms filter of the exact first-name lookup.                           *)
(***************************************************************************)

\* the exact lookup in progress, with the ms filter absent
ExactAnswerWithoutMs ==
  NameFilter(Lookup(index, cache, call.length, call.first_letter, call.v1, call.v2),
             [call EXCEPT !.ms = None])

\* C28: FirstNameIndex.query with ms=True returns exactly the names of the
\* bucket that pass the other filters and begin with m, t, s, f or w, and
\* with ms=False exactly the other ones, which is the selection
\* query_category makes.
C28_ExactMsByFirstLetter ==
  (cls = "FirstNameIndex" /\ pc = "ready" /\ call.op = "query" /\ call.ms # None) =>
    result.val = SelectSeq(ExactAnswerWithoutMs,
                           LAMBDA n : (n[1] \in MS_LETTERS) <=> (call.ms = "True"))


(***************************************************************************)
(* The rhyme flag of first names.                                          *)
(***************************************************************************)

\* api/main.py RHYME_SET, the reading of rhyme_flags.tsv the noun filter
\* uses: the words listed with flag 1
FlaggedRhyming(flags) == { Lower(r[1]) : r \in { x \in flags : x[2] = "1" } }

\* C29: the rhyme flag of a first-name entry is true exactly when the rhyme
\* table lists the name with flag 1, the reading the noun rhyme filter
\* makes; a name listed with flag 0 is never returned with rhyme=True.
C29_RhymeByFlag ==
  cls = "FirstNameIndex" =>
    /\ \A e \in StoredRecords : e.meta.rhyme <=> e.name \in FlaggedRhyming(RHYME_FLAGS)
    /\ (pc = "ready" /\ call.op \in {"query", "query_category"}
          /\ call.rhyme = "True" /\ result.kind = "list") =>
         \A n \in Range(result.val) : n \in FlaggedRhyming(RHYME_FLAGS)


(***************************************************************************)
(* Place and first-name queries through the service.                       *)
(***************************************************************************)

\* C30: once the indexes are ready, a place or first-name query with a valid
\* category, handled on an index that was built, is answered with a result
\* list (status 200) and never ends in an internal error.
C30_PlaceAndNameQueriesAnswered ==
  \A h \in Threads :
    ( /\ handler[h].pc = "responded"
      /\ handler[h].endpoint \in {"query_place", "query_first_name"}
      /\ handler[h].ready = "True"
      /\ handler[h].obj # None
      /\ handler[h].category \in DOMAIN CATEGORY_MAP )
    => handler[h].status = 200

====
